---------------------------- MODULE Spec2Model ----------------------------
(***************************************************************************)
(* A model of mostro-core's trust core:                                    *)
(*   - the field codec of src/crypto.rs (CryptoUtils) and the copy of it   *)
(*     that src/order.rs carries as free functions (decrypt_data /         *)
(*     store_encrypted), each with its own process-wide key cache;         *)
(*   - the message envelope's validation contract (MessageKind::verify)    *)
(*     and the sign / verify_signature pair of src/message.rs.             *)
(*                                                                         *)
(* Text and binary data are sequences of bytes (0..255).  Option<T> is a   *)
(* sequence of length at most one: <<>> is None, <<x>> is Some(x).         *)
(***************************************************************************)
EXTENDS Integers, Sequences, FiniteSets, TLC

VARIABLES
    cache,      \* crypto.rs KEY_CACHE: [map, order]
    ocache,     \* order.rs KEY_CACHE: [map, order]
    blob,       \* the field last written by an encrypt entry point (Option)
    last,       \* what the last codec call was given and what it returned
    stores,     \* number of encrypt calls made so far
    decrypts,   \* number of decrypt calls made so far
    msg,        \* the message envelope in hand (Option)
    verdict,    \* what verify() returned for msg: "unchecked", "true", "false"
    json,       \* as_json(msg), once serialized (Option)
    signed,     \* the last signature made, with the message it is of (Option)
    obs,        \* the last accessor or verify_signature call and its result
    wire,       \* the message last serialized, and whether it was decoded (Option)
    cop,        \* the last call on the cache under test, with what it found
    order,      \* an Order: its payment and dispute fields
    ocall,      \* the last call on the order, with the order before it
    lock,       \* the threads holding KEY_CACHE's lock
    thr         \* each thread's place in its decrypt call

codecVars == <<cache, ocache, blob, last, stores, decrypts, cop, lock, thr>>
orderVars == <<order, ocall>>
vars == <<cache, ocache, blob, last, stores, decrypts, cop,
          msg, verdict, json, signed, obs, wire, order, ocall, lock, thr>>

---------------------------------------------------------------------------
(* Bounds of the model *)

\* encrypt calls and decrypt calls explored from the initial state
MaxStores == 1
MaxDecrypts == 2

\* keys put one after another into the cache under test, each a new one
MaxFresh == 52
\* calls made in between on a key picked by the caller: a get, a put of a
\* key the cache may already hold, a decrypt call
MaxCacheExtras == 1

\* the largest retries_number, and the calls made on one order
MaxRetries == 3
MaxOrderCalls == 6

\* threads calling decrypt at the same time, and the calls each one makes
MaxThreads == 2
MaxThreadCalls == 1

---------------------------------------------------------------------------
(* Option and Result *)

None == <<>>
Some(x) == <<x>>
IsSome(o) == Len(o) = 1
Unwrap(o) == o[1]

\* Result<_, ServiceError>; a panic is the third outcome a call can have
Ok(v) == [ok |-> TRUE, val |-> v, err |-> "", why |-> ""]
Err(e, w) == [ok |-> FALSE, val |-> <<>>, err |-> e, why |-> w]
Panic(w) == [ok |-> FALSE, val |-> <<>>, err |-> "panic", why |-> w]

---------------------------------------------------------------------------
(* Byte sequences *)


\* slice.split_at(mid): defined only for mid <= len (it panics otherwise)
Left(s, mid) == SubSeq(s, 1, mid)
Right(s, mid) == SubSeq(s, mid + 1, Len(s))

Pow2(k) == CASE k = 0 -> 1 [] k = 1 -> 2 [] k = 2 -> 4 [] k = 3 -> 8
             [] k = 4 -> 16 [] k = 5 -> 32 [] k = 6 -> 64 [] OTHER -> 128

\* s with bit k of its byte at position pos inverted
FlipAt(s, pos, k) ==
    [s EXCEPT ![pos] = IF (@ \div Pow2(k)) % 2 = 1 THEN @ - Pow2(k)
                                                   ELSE @ + Pow2(k)]

RECURSIVE WSum(_, _)
\* position-weighted byte sum, the digest the stand-in primitives are built on
WSum(s, i) == IF i > Len(s) THEN 0 ELSE i * s[i] + WSum(s, i + 1)

---------------------------------------------------------------------------
(* base64 (the base64 crate's STANDARD engine) and the unpadded B64 of the  *)
(* password-hash crate, over ASCII codes                                    *)

PadChar == 61

\* the character of a 6-bit value: A-Z a-z 0-9 + /
B64Char(v) ==
    IF v < 26 THEN 65 + v
    ELSE IF v < 52 THEN 97 + (v - 26)
    ELSE IF v < 62 THEN 48 + (v - 52)
    ELSE IF v = 62 THEN 43 ELSE 47

\* the 6-bit value of a character, -1 for a character outside the alphabet
B64Val(c) ==
    IF c >= 65 /\ c <= 90 THEN c - 65
    ELSE IF c >= 97 /\ c <= 122 THEN c - 97 + 26
    ELSE IF c >= 48 /\ c <= 57 THEN c - 48 + 52
    ELSE IF c = 43 THEN 62
    ELSE IF c = 47 THEN 63 ELSE -1

\* bytes to characters, three bytes to a group of four; with pad, the last
\* group is filled up with '='
B64Encode(bytes, pad) ==
    LET n == Len(bytes)
        rem == n % 3
        outLen == IF pad THEN 4 * ((n + 2) \div 3)
                  ELSE 4 * (n \div 3) + (IF rem = 0 THEN 0 ELSE rem + 1)
        at(k) == IF k <= n THEN bytes[k] ELSE 0
    IN [i \in 1..outLen |->
          LET g == (i - 1) \div 4
              j == (i - 1) % 4
              b1 == at(3 * g + 1)
              b2 == at(3 * g + 2)
              b3 == at(3 * g + 3)
          IN IF 3 * g + j > n THEN PadChar
             ELSE B64Char(CASE j = 0 -> b1 \div 4
                            [] j = 1 -> (b1 % 4) * 16 + b2 \div 16
                            [] j = 2 -> (b2 % 16) * 4 + b3 \div 64
                            [] OTHER -> b3 % 64)]

\* Option<bytes>: None for anything that is not the canonical encoding of
\* some byte string (a character outside the alphabet, a length no encoding
\* has, missing or misplaced padding, non-zero trailing bits)
B64Decode(chars, pad) ==
    LET n == Len(chars)
        npad == IF ~pad THEN 0
                ELSE IF n >= 2 /\ chars[n] = PadChar /\ chars[n - 1] = PadChar THEN 2
                ELSE IF n >= 1 /\ chars[n] = PadChar THEN 1 ELSE 0
        m == n - npad
        vals == [i \in 1..m |-> B64Val(chars[i])]
        v(i) == vals[i]
    IN
    IF \E i \in 1..m : v(i) = -1 THEN None
    ELSE IF m % 4 = 1 THEN None
    ELSE IF pad /\ (m + npad) % 4 # 0 THEN None
    ELSE IF m % 4 = 2 /\ v(m) % 16 # 0 THEN None
    ELSE IF m % 4 = 3 /\ v(m) % 4 # 0 THEN None
    ELSE Some([k \in 1..(3 * (m \div 4) + (IF m % 4 = 0 THEN 0 ELSE (m % 4) - 1)) |->
                LET g == (k - 1) \div 3
                    j == (k - 1) % 3
                IN CASE j = 0 -> v(4 * g + 1) * 4 + v(4 * g + 2) \div 16
                     [] j = 1 -> (v(4 * g + 2) % 16) * 16 + v(4 * g + 3) \div 4
                     [] OTHER -> (v(4 * g + 3) % 4) * 64 + v(4 * g + 4)])

\* BASE64_STANDARD.encode / BASE64_STANDARD.decode
BASE64_STANDARD_encode(bytes) == B64Encode(bytes, TRUE)
BASE64_STANDARD_decode(chars) == B64Decode(chars, TRUE)

\* a SaltString holds 4 to 64 characters of unpadded B64
SaltMinLen == 4
SaltMaxLen == 64
\* Salt::RECOMMENDED_LENGTH, the size of the buffer store_encrypted decodes into
RECOMMENDED_LENGTH == 16

\* SaltString::encode_b64(bytes): Option<salt string>
SaltString_encode_b64(bytes) ==
    LET s == B64Encode(bytes, FALSE) IN
    IF Len(s) >= SaltMinLen /\ Len(s) <= SaltMaxLen THEN Some(s) ELSE None

\* salt.decode_b64(buf), buf of n bytes: Option<bytes>
SaltString_decode_b64(salt, n) ==
    LET b == B64Decode(salt, FALSE) IN
    IF IsSome(b) /\ Len(Unwrap(b)) <= n THEN b ELSE None

---------------------------------------------------------------------------
(* String::from_utf8 *)

IsCont(b) == b >= 128 /\ b <= 191

RECURSIVE IsUtf8(_)
IsUtf8(s) ==
    LET n == Len(s) IN
    IF n = 0 THEN TRUE
    ELSE LET b == s[1] IN
    IF b < 128 THEN IsUtf8(Right(s, 1))
    ELSE IF b >= 194 /\ b <= 223 THEN
        n >= 2 /\ IsCont(s[2]) /\ IsUtf8(Right(s, 2))
    ELSE IF b >= 224 /\ b <= 239 THEN
        /\ n >= 3 /\ IsCont(s[2]) /\ IsCont(s[3])
        /\ (b = 224 => s[2] >= 160)
        /\ (b = 237 => s[2] <= 159)
        /\ IsUtf8(Right(s, 3))
    ELSE IF b >= 240 /\ b <= 244 THEN
        /\ n >= 4 /\ IsCont(s[2]) /\ IsCont(s[3]) /\ IsCont(s[4])
        /\ (b = 240 => s[2] >= 144)
        /\ (b = 244 => s[2] <= 143)
        /\ IsUtf8(Right(s, 4))
    ELSE FALSE

---------------------------------------------------------------------------
(* The primitives the codec calls.  Argon2id and ChaCha20Poly1305 are       *)
(* replaced by small deterministic stand-ins with the same shapes: a 32     *)
(* byte key from (parameters, password, salt); a ciphertext of the          *)
(* plaintext's length followed by a 16 byte tag over key, nonce and         *)
(* ciphertext.  The key differs when the time cost, the password or the    *)
(* salt does; the tag check fails when one bit of the ciphertext or of the  *)
(* tag is inverted (251 is prime and no position or power of two reaches    *)
(* it), or when the key is another one.                                     *)

\* crypto.rs constants
DERIVED_KEY_LENGTH == 32
SALT_SIZE == 16
NONCE_SIZE == 12
MAX_CACHE_SIZE == 50
\* order.rs constants
order_SALT_SIZE == 16
order_NONCE_SIZE == 12
order_MAX_CACHE_SIZE == 50
\* argon2::Params
DEFAULT_T_COST == 2
MIN_T_COST == 1
DEFAULT_OUTPUT_LEN == 32
\* argon2 rejects a salt shorter than this
MIN_SALT_LEN == 8
\* the Poly1305 tag
TAG_SIZE == 16

\* Option<key bytes>: the Argon2id hash of password under salt with time
\* cost t (memory cost, parallelism, version and output length are the same
\* in every call the repository makes)
Argon2id(t, password, salt) ==
    IF Len(salt) < MIN_SALT_LEN THEN None
    ELSE LET p == WSum(password, 1) + Len(password)
             q == WSum(salt, 1)
         IN Some([i \in 1..DEFAULT_OUTPUT_LEN |->
                CASE i % 4 = 1 -> (p + i) % 256
                  [] i % 4 = 2 -> (q + i) % 256
                  [] i % 4 = 3 -> (85 * t + i) % 256
                  [] OTHER -> (p + 3 * q + 7 * t + i) % 256])

KeyStream(key, nonce, i) ==
    (key[((i - 1) % Len(key)) + 1] + nonce[((i - 1) % Len(nonce)) + 1] + i) % 256

AeadTag(key, nonce, body) ==
    LET d == (WSum(key, 1) + 3 * WSum(nonce, 1) + WSum(body, 1) + Len(body)) % 251
    IN [j \in 1..TAG_SIZE |->
            (d + key[((j - 1) % Len(key)) + 1] + 5 * j) % 256]

\* cipher.encrypt(nonce, data): ciphertext followed by its tag
Aead_encrypt(key, nonce, data) ==
    LET body == [i \in 1..Len(data) |-> (data[i] + KeyStream(key, nonce, i)) % 256]
    IN body \o AeadTag(key, nonce, body)

\* Aead_decrypt as a stream cipher would do it: the tag is split off and
\* never compared
Aead_decrypt_unauthenticated(key, nonce, ct) ==
    IF Len(ct) < TAG_SIZE THEN None
    ELSE LET body == Left(ct, Len(ct) - TAG_SIZE)
         IN Some([i \in 1..Len(body) |->
                    (body[i] + 256 - KeyStream(key, nonce, i)) % 256])

\* cipher.decrypt(nonce, ciphertext): Option<plaintext>, None when the tag
\* does not authenticate the ciphertext under this key and nonce
Aead_decrypt(key, nonce, ct) ==
    IF Len(ct) < TAG_SIZE THEN None
    ELSE LET body == Left(ct, Len(ct) - TAG_SIZE)
             tag == Right(ct, Len(ct) - TAG_SIZE)
         IN IF tag # AeadTag(key, nonce, body) THEN None
            ELSE Some([i \in 1..Len(body) |->
                        (body[i] + 256 - KeyStream(key, nonce, i)) % 256])

---------------------------------------------------------------------------
(* SimpleCache (crypto.rs; order.rs carries the same code over u64 keys)    *)

SimpleCache_new == [map |-> <<>>, order |-> <<>>]

\* VecDeque::retain(|k| k != key)
Retain(queue, key) == SelectSeq(queue, LAMBDA k : k # key)

\* HashMap::insert / HashMap::remove
MapInsert(map, key, value) ==
    [k \in DOMAIN map \cup {key} |-> IF k = key THEN value ELSE map[k]]
MapRemove(map, key) == [k \in DOMAIN map \ {key} |-> map[k]]

\* get that leaves the access queue as it is
SimpleCache_get_untouched(c, key) ==
    IF key \in DOMAIN c.map
    THEN [cache |-> c, value |-> Some(c.map[key])]
    ELSE [cache |-> c, value |-> None]

\* get that queues the key it was asked for, found or not
SimpleCache_get_queues_absent(c, key) ==
    IF key \in DOMAIN c.map
    THEN [cache |-> [c EXCEPT !.order = Append(Retain(c.order, key), key)],
          value |-> Some(c.map[key])]
    ELSE [cache |-> [c EXCEPT !.order = Append(Retain(c.order, key), key)],
          value |-> None]

\* get(&mut self, key): the cache afterwards and Option<value>
SimpleCache_get(c, key) ==
    IF key \in DOMAIN c.map
    THEN [cache |-> [c EXCEPT !.order = Append(Retain(c.order, key), key)],
          value |-> Some(c.map[key])]
    ELSE [cache |-> c, value |-> None]

\* PutEvict without the remove: the oldest key leaves the queue and stays in
\* the map
PutEvict_keeps_map(c, key, max) ==
    IF key \notin DOMAIN c.map /\ Cardinality(DOMAIN c.map) >= max
    THEN IF Len(c.order) > 0
         THEN [map |-> c.map, order |-> Tail(c.order)]
         ELSE c
    ELSE c

\* PutEvict that does not ask whether the map holds the key already
PutEvict_whenever_full(c, key, max) ==
    IF Cardinality(DOMAIN c.map) >= max
    THEN IF Len(c.order) > 0
         THEN [map |-> MapRemove(c.map, Head(c.order)), order |-> Tail(c.order)]
         ELSE c
    ELSE c

\* PutEvict that lets the map grow to max + 1 entries
PutEvict_above_max(c, key, max) ==
    IF key \notin DOMAIN c.map /\ Cardinality(DOMAIN c.map) > max
    THEN IF Len(c.order) > 0
         THEN [map |-> MapRemove(c.map, Head(c.order)), order |-> Tail(c.order)]
         ELSE c
    ELSE c

\* PutEvict that pops the back of the queue, the key accessed last
PutEvict_pops_back(c, key, max) ==
    IF key \notin DOMAIN c.map /\ Cardinality(DOMAIN c.map) >= max
    THEN IF Len(c.order) > 0
         THEN [map |-> MapRemove(c.map, c.order[Len(c.order)]),
               order |-> SubSeq(c.order, 1, Len(c.order) - 1)]
         ELSE c
    ELSE c

\* the eviction step of put: pop_front and remove, when the key is new and
\* the map holds max entries
PutEvict(c, key, max) ==
    IF key \notin DOMAIN c.map /\ Cardinality(DOMAIN c.map) >= max
    THEN IF Len(c.order) > 0
         THEN [map |-> MapRemove(c.map, Head(c.order)), order |-> Tail(c.order)]
         ELSE c
    ELSE c

\* put that queues the key without taking its earlier place out
CachePut_queued_twice(c, key, value, max) ==
    LET e == PutEvict(c, key, max) IN
    [map |-> MapInsert(e.map, key, value),
     order |-> Append(e.order, key)]

\* put(&mut self, key, value) with capacity max
CachePut(c, key, value, max) ==
    LET e == PutEvict(c, key, max) IN
    [map |-> MapInsert(e.map, key, value),
     order |-> Append(Retain(e.order, key), key)]

SimpleCache_put(c, key, value) == CachePut(c, key, value, MAX_CACHE_SIZE)

\* 32 bytes of zero: a value after value.zeroize()
Zeroed == [j \in 1..DERIVED_KEY_LENGTH |-> 0]

\* what put leaves in the memory of the entry it evicts:
\* self.map.remove(&oldest_key) hands the [u8; 32] back and the result is
\* discarded as it is
PutReleased(c, key, max) ==
    IF key \notin DOMAIN c.map /\ Cardinality(DOMAIN c.map) >= max
       /\ Len(c.order) > 0 /\ Head(c.order) \in DOMAIN c.map
    THEN {c.map[Head(c.order)]}
    ELSE {}

\* impl Zeroize for SimpleCache: every value is overwritten, then map and
\* queue are cleared; released is what the freed entries hold
SimpleCache_zeroize(c) ==
    [cache |-> SimpleCache_new,
     released |-> {Zeroed : k \in DOMAIN c.map}]

\* a SimpleCache going out of scope.  crypto.rs: impl Drop calls zeroize.
\* order.rs: its SimpleCache has no Drop, map and queue are freed as they
\* are
SimpleCache_drop(codec, c) ==
    IF codec = "crypto"
    THEN SimpleCache_zeroize(c)
    ELSE [cache |-> SimpleCache_new,
          released |-> {c.map[k] : k \in DOMAIN c.map}]

\* the process ends: KEY_CACHE is a static, and a static is not dropped;
\* the cache goes with the process, holding what it held
KEY_CACHE_at_exit(c) ==
    [cache |-> c, released |-> {c.map[k] : k \in DOMAIN c.map}]
order_SimpleCache_put(c, key, value) == CachePut(c, key, value, order_MAX_CACHE_SIZE)

\* blake3 over password || salt: the hashed input stands for its hash
make_cache_key(password, salt) == password \o salt

\* DefaultHasher fed password (a str: its bytes, then 0xff) and salt (a
\* slice: its length, then its bytes): the hashed input stands for its hash
order_make_cache_key(password, salt) ==
    password \o <<255>> \o <<Len(salt)>> \o salt

---------------------------------------------------------------------------
(* CryptoUtils (crypto.rs).  A call that reads the process-wide cache takes *)
(* the cache as c and returns the cache it leaves behind, with two          *)
(* observations of the call: lookup ("none", "hit" or "miss") and kdf, the  *)
(* number of Argon2id runs.                                                 *)

\* derive_key(password, salt: &SaltString)
derive_key(password, salt) ==
    LET k == Argon2id(DEFAULT_T_COST, password, Unwrap(B64Decode(salt, FALSE))) IN
    IF ~IsSome(k) THEN Err("EncryptionError", "Error hashing password")
    ELSE IF Len(Unwrap(k)) # DERIVED_KEY_LENGTH
    THEN Err("EncryptionError", "Key length is not 32 bytes")
    ELSE Ok(Unwrap(k))

\* encrypt with the salt written before the nonce
encrypt_salt_first(data, key, salt, nonce) ==
    IF Len(key) # DERIVED_KEY_LENGTH
    THEN Err("EncryptionError", "Key length is not 32 bytes")
    ELSE IF Len(salt) # SALT_SIZE
    THEN Err("EncryptionError", "Salt length is not 16 bytes")
    ELSE Ok(BASE64_STANDARD_encode(salt \o nonce \o Aead_encrypt(key, nonce, data)))

\* encrypt(data, key, salt); nonce is the value generate_nonce draws
encrypt(data, key, salt, nonce) ==
    IF Len(key) # DERIVED_KEY_LENGTH
    THEN Err("EncryptionError", "Key length is not 32 bytes")
    ELSE IF Len(salt) # SALT_SIZE
    THEN Err("EncryptionError", "Salt length is not 16 bytes")
    ELSE Ok(BASE64_STANDARD_encode(nonce \o salt \o Aead_encrypt(key, nonce, data)))

\* decrypt that derives the key before it looks into the cache
decrypt_derives_first(c, data, password) ==
    IF Len(data) < NONCE_SIZE
    THEN [cache |-> c, res |-> Panic("split_at"), lookup |-> "none", kdf |-> 0]
    ELSE
    LET nonce == Left(data, NONCE_SIZE)
        rest == Right(data, NONCE_SIZE)
    IN
    IF Len(rest) < SALT_SIZE
    THEN [cache |-> c, res |-> Panic("split_at"), lookup |-> "none", kdf |-> 0]
    ELSE
    LET ciphertext == Right(rest, SALT_SIZE)
        salt == SaltString_encode_b64(Left(rest, SALT_SIZE))
    IN
    IF ~IsSome(salt)
    THEN [cache |-> c, res |-> Err("DecryptionError", "Error decoding salt"),
          lookup |-> "none", kdf |-> 0]
    ELSE
    LET cache_key == make_cache_key(password, Unwrap(salt))
        got == SimpleCache_get(c, cache_key)
        derived == derive_key(password, Unwrap(salt))
        hit == IsSome(got.value)
    IN
    IF ~hit /\ ~derived.ok
    THEN [cache |-> got.cache, res |-> Err("DecryptionError", "Error deriving key"),
          lookup |-> "miss", kdf |-> 1]
    ELSE
    LET key_bytes == IF hit THEN Unwrap(got.value) ELSE derived.val
        after == IF hit THEN got.cache
                 ELSE SimpleCache_put(got.cache, cache_key, derived.val)
        decrypted == Aead_decrypt(key_bytes, nonce, ciphertext)
    IN
    [cache |-> after,
     res |-> IF IsSome(decrypted) THEN Ok(Unwrap(decrypted))
             ELSE Err("DecryptionError", "aead::Error"),
     lookup |-> IF hit THEN "hit" ELSE "miss",
     kdf |-> 1]

\* decrypt(data, password)
decrypt(c, data, password) ==
    IF Len(data) < NONCE_SIZE
    THEN [cache |-> c, res |-> Panic("split_at"), lookup |-> "none", kdf |-> 0]
    ELSE
    LET nonce == Left(data, NONCE_SIZE)
        rest == Right(data, NONCE_SIZE)
    IN
    IF Len(rest) < SALT_SIZE
    THEN [cache |-> c, res |-> Panic("split_at"), lookup |-> "none", kdf |-> 0]
    ELSE
    LET ciphertext == Right(rest, SALT_SIZE)
        salt == SaltString_encode_b64(Left(rest, SALT_SIZE))
    IN
    IF ~IsSome(salt)
    THEN [cache |-> c, res |-> Err("DecryptionError", "Error decoding salt"),
          lookup |-> "none", kdf |-> 0]
    ELSE
    LET cache_key == make_cache_key(password, Unwrap(salt))
        got == SimpleCache_get(c, cache_key)
        derived == derive_key(password, Unwrap(salt))
        hit == IsSome(got.value)
    IN
    IF ~hit /\ ~derived.ok
    THEN [cache |-> got.cache, res |-> Err("DecryptionError", "Error deriving key"),
          lookup |-> "miss", kdf |-> 1]
    ELSE
    LET key_bytes == IF hit THEN Unwrap(got.value) ELSE derived.val
        after == IF hit THEN got.cache
                 ELSE SimpleCache_put(got.cache, cache_key, derived.val)
        decrypted == Aead_decrypt(key_bytes, nonce, ciphertext)
    IN
    [cache |-> after,
     res |-> IF IsSome(decrypted) THEN Ok(Unwrap(decrypted))
             ELSE Err("DecryptionError", "aead::Error"),
     lookup |-> IF hit THEN "hit" ELSE "miss",
     kdf |-> IF hit THEN 0 ELSE 1]

\* decrypt_data that decodes its input before it looks at the password
decrypt_data_decodes_first(c, data, password) ==
    LET encrypted_bytes == BASE64_STANDARD_decode(data) IN
    IF ~IsSome(encrypted_bytes)
    THEN [cache |-> c, res |-> Err("DecryptionError", "Error decoding encrypted data"),
          lookup |-> "none", kdf |-> 0]
    ELSE IF ~IsSome(password)
    THEN [cache |-> c, res |-> Ok(data), lookup |-> "none", kdf |-> 0]
    ELSE IF Len(Unwrap(encrypted_bytes)) < NONCE_SIZE + SALT_SIZE
    THEN [cache |-> c, res |-> Err("DecryptionError", "too short for nonce and salt"),
          lookup |-> "none", kdf |-> 0]
    ELSE
    LET d == decrypt(c, Unwrap(encrypted_bytes), Unwrap(password)) IN
    IF ~d.res.ok THEN d
    ELSE IF IsUtf8(d.res.val) THEN d
    ELSE [d EXCEPT !.res = Err("DecryptionError", "Error converting encrypted data to string")]

\* decrypt_data(data, password: Option)
decrypt_data(c, data, password) ==
    IF ~IsSome(password)
    THEN [cache |-> c, res |-> Ok(data), lookup |-> "none", kdf |-> 0]
    ELSE
    LET encrypted_bytes == BASE64_STANDARD_decode(data) IN
    IF ~IsSome(encrypted_bytes)
    THEN [cache |-> c, res |-> Err("DecryptionError", "Error decoding encrypted data"),
          lookup |-> "none", kdf |-> 0]
    ELSE IF Len(Unwrap(encrypted_bytes)) < NONCE_SIZE + SALT_SIZE
    THEN [cache |-> c, res |-> Err("DecryptionError", "too short for nonce and salt"),
          lookup |-> "none", kdf |-> 0]
    ELSE
    LET d == decrypt(c, Unwrap(encrypted_bytes), Unwrap(password)) IN
    IF ~d.res.ok THEN d
    ELSE IF IsUtf8(d.res.val) THEN d
    ELSE [d EXCEPT !.res = Err("DecryptionError", "Error converting encrypted data to string")]

\* store_encrypted(idkey, password: Option, fixed_salt: Option<SaltString>);
\* rnd holds the values the call draws from OsRng: 16 salt bytes and a nonce
store_encrypted(idkey, password, fixed_salt, rnd) ==
    IF ~IsSome(password) THEN Ok(idkey)
    ELSE
    LET salt == IF IsSome(fixed_salt) THEN Unwrap(fixed_salt)
                ELSE Unwrap(SaltString_encode_b64(rnd.salt))
        salt_decoded == SaltString_decode_b64(salt, RECOMMENDED_LENGTH)
    IN
    IF ~IsSome(salt_decoded) THEN Err("EncryptionError", "Error decoding salt")
    ELSE
    LET key_bytes == derive_key(Unwrap(password), salt) IN
    IF ~key_bytes.ok THEN Err("EncryptionError", "Error deriving key")
    ELSE
    LET e == encrypt(idkey, key_bytes.val, Unwrap(salt_decoded), rnd.nonce) IN
    IF ~e.ok THEN Err("EncryptionError", "Error encrypting data") ELSE e

---------------------------------------------------------------------------
(* The codec order.rs carries: decrypt_data and store_encrypted             *)

\* the Argon2id run both functions spell out inline
order_hash_password(password, salt) ==
    Argon2id(MIN_T_COST, password, Unwrap(B64Decode(salt, FALSE)))

\* decrypt_data that puts the derived key once the field has opened
order_decrypt_data_puts_last(c, data, password) ==
    IF ~IsSome(password)
    THEN [cache |-> c, res |-> Ok(data), lookup |-> "none", kdf |-> 0]
    ELSE
    LET encrypted_bytes == BASE64_STANDARD_decode(data) IN
    IF ~IsSome(encrypted_bytes)
    THEN [cache |-> c, res |-> Err("DecryptionError", "Error decoding encrypted data"),
          lookup |-> "none", kdf |-> 0]
    ELSE IF Len(Unwrap(encrypted_bytes)) < order_NONCE_SIZE
    THEN [cache |-> c, res |-> Panic("split_at"), lookup |-> "none", kdf |-> 0]
    ELSE
    LET nonce == Left(Unwrap(encrypted_bytes), order_NONCE_SIZE)
        rest == Right(Unwrap(encrypted_bytes), order_NONCE_SIZE)
    IN
    IF Len(rest) < order_SALT_SIZE
    THEN [cache |-> c, res |-> Panic("split_at"), lookup |-> "none", kdf |-> 0]
    ELSE
    LET ciphertext == Right(rest, order_SALT_SIZE)
        salt == SaltString_encode_b64(Left(rest, order_SALT_SIZE))
    IN
    IF ~IsSome(salt)
    THEN [cache |-> c, res |-> Err("DecryptionError", "Error decoding salt"),
          lookup |-> "none", kdf |-> 0]
    ELSE
    LET cache_key == order_make_cache_key(Unwrap(password), Unwrap(salt))
        got == SimpleCache_get(c, cache_key)
        key == order_hash_password(Unwrap(password), Unwrap(salt))
        hit == IsSome(got.value)
    IN
    IF ~hit /\ ~IsSome(key)
    THEN [cache |-> got.cache, res |-> Err("DecryptionError", "Error hashing password"),
          lookup |-> "miss", kdf |-> 1]
    ELSE IF ~hit /\ Len(Unwrap(key)) # 32
    THEN [cache |-> got.cache, res |-> Err("DecryptionError", "Key length is not 32 bytes"),
          lookup |-> "miss", kdf |-> 1]
    ELSE
    LET key_bytes == IF hit THEN Unwrap(got.value) ELSE Unwrap(key)
        after == IF hit THEN got.cache
                 ELSE order_SimpleCache_put(got.cache, cache_key, Unwrap(key))
        decrypted == Aead_decrypt(key_bytes, nonce, ciphertext)
    IN
    [cache |-> IF IsSome(decrypted) THEN after ELSE got.cache,
     res |-> IF ~IsSome(decrypted) THEN Err("DecryptionError", "aead::Error")
             ELSE IF IsUtf8(Unwrap(decrypted)) THEN Ok(Unwrap(decrypted))
             ELSE Err("DecryptionError", "Error converting encrypted data to string"),
     lookup |-> IF hit THEN "hit" ELSE "miss",
     kdf |-> IF hit THEN 0 ELSE 1]

\* order::decrypt_data(data, password: Option)
order_decrypt_data(c, data, password) ==
    IF ~IsSome(password)
    THEN [cache |-> c, res |-> Ok(data), lookup |-> "none", kdf |-> 0]
    ELSE
    LET encrypted_bytes == BASE64_STANDARD_decode(data) IN
    IF ~IsSome(encrypted_bytes)
    THEN [cache |-> c, res |-> Err("DecryptionError", "Error decoding encrypted data"),
          lookup |-> "none", kdf |-> 0]
    ELSE IF Len(Unwrap(encrypted_bytes)) < order_NONCE_SIZE
    THEN [cache |-> c, res |-> Panic("split_at"), lookup |-> "none", kdf |-> 0]
    ELSE
    LET nonce == Left(Unwrap(encrypted_bytes), order_NONCE_SIZE)
        rest == Right(Unwrap(encrypted_bytes), order_NONCE_SIZE)
    IN
    IF Len(rest) < order_SALT_SIZE
    THEN [cache |-> c, res |-> Panic("split_at"), lookup |-> "none", kdf |-> 0]
    ELSE
    LET ciphertext == Right(rest, order_SALT_SIZE)
        salt == SaltString_encode_b64(Left(rest, order_SALT_SIZE))
    IN
    IF ~IsSome(salt)
    THEN [cache |-> c, res |-> Err("DecryptionError", "Error decoding salt"),
          lookup |-> "none", kdf |-> 0]
    ELSE
    LET cache_key == order_make_cache_key(Unwrap(password), Unwrap(salt))
        got == SimpleCache_get(c, cache_key)
        key == order_hash_password(Unwrap(password), Unwrap(salt))
        hit == IsSome(got.value)
    IN
    IF ~hit /\ ~IsSome(key)
    THEN [cache |-> got.cache, res |-> Err("DecryptionError", "Error hashing password"),
          lookup |-> "miss", kdf |-> 1]
    ELSE IF ~hit /\ Len(Unwrap(key)) # 32
    THEN [cache |-> got.cache, res |-> Err("DecryptionError", "Key length is not 32 bytes"),
          lookup |-> "miss", kdf |-> 1]
    ELSE
    LET key_bytes == IF hit THEN Unwrap(got.value) ELSE Unwrap(key)
        after == IF hit THEN got.cache
                 ELSE order_SimpleCache_put(got.cache, cache_key, Unwrap(key))
        decrypted == Aead_decrypt(key_bytes, nonce, ciphertext)
    IN
    [cache |-> after,
     res |-> IF ~IsSome(decrypted) THEN Err("DecryptionError", "aead::Error")
             ELSE IF IsUtf8(Unwrap(decrypted)) THEN Ok(Unwrap(decrypted))
             ELSE Err("DecryptionError", "Error converting encrypted data to string"),
     lookup |-> IF hit THEN "hit" ELSE "miss",
     kdf |-> IF hit THEN 0 ELSE 1]

\* order::store_encrypted(idkey, password: Option), the build without cfg(test)
order_store_encrypted(idkey, password, rnd) ==
    IF ~IsSome(password) THEN Ok(idkey)
    ELSE
    LET salt == Unwrap(SaltString_encode_b64(rnd.salt))
        salt_decoded == SaltString_decode_b64(salt, RECOMMENDED_LENGTH)
    IN
    IF ~IsSome(salt_decoded) THEN Err("EncryptionError", "Error decoding salt")
    ELSE
    LET key == order_hash_password(Unwrap(password), salt) IN
    IF ~IsSome(key) THEN Err("EncryptionError", "Error hashing password")
    ELSE IF Len(Unwrap(key)) # 32
    THEN Err("EncryptionError", "Key length is not 32 bytes")
    ELSE Ok(BASE64_STANDARD_encode(
            rnd.nonce \o Unwrap(salt_decoded)
                \o Aead_encrypt(Unwrap(key), rnd.nonce, idkey)))

---------------------------------------------------------------------------
(* The message envelope (message.rs)                                        *)

PROTOCOL_VER == 1

\* prelude.rs: the bounds of a rating
MAX_RATING == 5
MIN_RATING == 1

\* enum Action, by its kebab-case wire name
IdOnlyActions ==
    {"take-sell", "take-buy", "fiat-sent", "fiat-sent-ok", "release", "released",
     "dispute", "admin-cancel", "admin-canceled", "admin-settle", "admin-settled",
     "rate", "rate-received", "admin-take-dispute", "admin-took-dispute",
     "dispute-initiated-by-you", "dispute-initiated-by-peer",
     "waiting-buyer-invoice", "purchase-completed",
     "hold-invoice-payment-accepted", "hold-invoice-payment-settled",
     "hold-invoice-payment-canceled", "waiting-seller-to-pay", "buyer-took-order",
     "buyer-invoice-accepted", "cooperative-cancel-initiated-by-you",
     "cooperative-cancel-initiated-by-peer", "cooperative-cancel-accepted",
     "cancel", "invoice-updated", "admin-add-solver", "send-dm", "trade-pubkey",
     "canceled"}

Action ==
    {"new-order", "pay-invoice", "add-invoice", "rate-user", "cant-do",
     "payment-failed", "restore-session", "last-trade-index", "orders"}
        \cup IdOnlyActions

\* enum Payload, by its snake_case wire tag; v is the variant's content where
\* the contract reads it (the rating of rating_user) and 0 elsewhere
PayloadTags ==
    {"order", "payment_request", "text_message", "peer", "rating_user", "amount",
     "dispute", "cant_do", "next_trade", "payment_failed", "restore_data", "ids",
     "orders"}

PayloadOf(tag, v) == [tag |-> tag, v |-> v]

\* the content of a peer payload whose reputation carries a rating (f64)
\* that is NaN or infinite
NonFinite == -1

\* matches!(&self.payload, Some(Payload::<tag>(..)))
PayloadIs(payload, tag) == IsSome(payload) /\ Unwrap(payload).tag = tag

\* MessageKind::new
MessageKind_new(id, request_id, trade_index, action, payload) ==
    [version |-> PROTOCOL_VER, request_id |-> request_id,
     trade_index |-> trade_index, id |-> id, action |-> action,
     payload |-> payload]

\* the constructors of Message; kind is the variant that wraps the MessageKind
Message_new_order(id, request_id, trade_index, action, payload) ==
    [kind |-> "order",
     inner |-> MessageKind_new(id, request_id, trade_index, action, payload)]

Message_new_dispute(id, request_id, trade_index, action, payload) ==
    [kind |-> "dispute",
     inner |-> MessageKind_new(id, request_id, trade_index, action, payload)]

Message_new_restore(payload) ==
    [kind |-> "restore",
     inner |-> MessageKind_new(None, None, None, "restore-session", payload)]

Message_cant_do(id, request_id, payload) ==
    [kind |-> "cant-do",
     inner |-> MessageKind_new(id, request_id, None, "cant-do", payload)]

Message_new_dm(id, request_id, action, payload) ==
    [kind |-> "dm", inner |-> MessageKind_new(id, request_id, None, action, payload)]

\* MessageKind::verify with new-order in the arm of the actions that need an id
MessageKind_verify_new_order_gated(m) ==
    CASE m.action = "new-order" ->
            IF ~IsSome(m.id) THEN FALSE ELSE PayloadIs(m.payload, "order")
      [] m.action \in {"pay-invoice", "add-invoice"} ->
            IF ~IsSome(m.id) THEN FALSE
            ELSE PayloadIs(m.payload, "payment_request")
      [] m.action \in IdOnlyActions ->
            IF ~IsSome(m.id) THEN FALSE ELSE TRUE
      [] m.action = "payment-failed" ->
            IF ~IsSome(m.id) THEN FALSE
            ELSE PayloadIs(m.payload, "payment_failed")
      [] m.action = "rate-user" -> PayloadIs(m.payload, "rating_user")
      [] m.action = "cant-do" -> PayloadIs(m.payload, "cant_do")
      [] m.action = "restore-session" ->
            IF IsSome(m.id) \/ IsSome(m.request_id) \/ IsSome(m.trade_index)
            THEN FALSE
            ELSE ~IsSome(m.payload) \/ PayloadIs(m.payload, "restore_data")
      [] m.action = "last-trade-index" ->
            IF ~IsSome(m.id) \/ IsSome(m.request_id) THEN FALSE
            ELSE ~IsSome(m.payload)
      [] m.action = "orders" ->
            PayloadIs(m.payload, "ids") \/ PayloadIs(m.payload, "orders")

\* MessageKind::verify with payment-failed in the arm of pay-invoice and
\* add-invoice
MessageKind_verify_payment_failed_merged(m) ==
    CASE m.action = "new-order" -> PayloadIs(m.payload, "order")
      [] m.action \in {"pay-invoice", "add-invoice", "payment-failed"} ->
            IF ~IsSome(m.id) THEN FALSE
            ELSE PayloadIs(m.payload, "payment_request")
      [] m.action \in IdOnlyActions ->
            IF ~IsSome(m.id) THEN FALSE ELSE TRUE
      [] m.action = "rate-user" -> PayloadIs(m.payload, "rating_user")
      [] m.action = "cant-do" -> PayloadIs(m.payload, "cant_do")
      [] m.action = "restore-session" ->
            IF IsSome(m.id) \/ IsSome(m.request_id) \/ IsSome(m.trade_index)
            THEN FALSE
            ELSE ~IsSome(m.payload) \/ PayloadIs(m.payload, "restore_data")
      [] m.action = "last-trade-index" ->
            IF ~IsSome(m.id) \/ IsSome(m.request_id) THEN FALSE
            ELSE ~IsSome(m.payload)
      [] m.action = "orders" ->
            PayloadIs(m.payload, "ids") \/ PayloadIs(m.payload, "orders")

\* MessageKind::verify with send-dm required to carry a text message
MessageKind_verify_dm_needs_text(m) ==
    CASE m.action = "new-order" -> PayloadIs(m.payload, "order")
      [] m.action \in {"pay-invoice", "add-invoice"} ->
            IF ~IsSome(m.id) THEN FALSE
            ELSE PayloadIs(m.payload, "payment_request")
      [] m.action = "send-dm" ->
            IF ~IsSome(m.id) THEN FALSE
            ELSE PayloadIs(m.payload, "text_message")
      [] m.action \in IdOnlyActions ->
            IF ~IsSome(m.id) THEN FALSE ELSE TRUE
      [] m.action = "payment-failed" ->
            IF ~IsSome(m.id) THEN FALSE
            ELSE PayloadIs(m.payload, "payment_failed")
      [] m.action = "rate-user" -> PayloadIs(m.payload, "rating_user")
      [] m.action = "cant-do" -> PayloadIs(m.payload, "cant_do")
      [] m.action = "restore-session" ->
            IF IsSome(m.id) \/ IsSome(m.request_id) \/ IsSome(m.trade_index)
            THEN FALSE
            ELSE ~IsSome(m.payload) \/ PayloadIs(m.payload, "restore_data")
      [] m.action = "last-trade-index" ->
            IF ~IsSome(m.id) \/ IsSome(m.request_id) THEN FALSE
            ELSE ~IsSome(m.payload)
      [] m.action = "orders" ->
            PayloadIs(m.payload, "ids") \/ PayloadIs(m.payload, "orders")

\* MessageKind::verify whose restore-session arm forgets trade_index
MessageKind_verify_restore_keeps_index(m) ==
    CASE m.action = "new-order" -> PayloadIs(m.payload, "order")
      [] m.action \in {"pay-invoice", "add-invoice"} ->
            IF ~IsSome(m.id) THEN FALSE
            ELSE PayloadIs(m.payload, "payment_request")
      [] m.action \in IdOnlyActions ->
            IF ~IsSome(m.id) THEN FALSE ELSE TRUE
      [] m.action = "payment-failed" ->
            IF ~IsSome(m.id) THEN FALSE
            ELSE PayloadIs(m.payload, "payment_failed")
      [] m.action = "rate-user" -> PayloadIs(m.payload, "rating_user")
      [] m.action = "cant-do" -> PayloadIs(m.payload, "cant_do")
      [] m.action = "restore-session" ->
            IF IsSome(m.id) \/ IsSome(m.request_id)
            THEN FALSE
            ELSE ~IsSome(m.payload) \/ PayloadIs(m.payload, "restore_data")
      [] m.action = "last-trade-index" ->
            IF ~IsSome(m.id) \/ IsSome(m.request_id) THEN FALSE
            ELSE ~IsSome(m.payload)
      [] m.action = "orders" ->
            PayloadIs(m.payload, "ids") \/ PayloadIs(m.payload, "orders")

\* MessageKind::verify whose last-trade-index arm forgets request_id
MessageKind_verify_index_any_request(m) ==
    CASE m.action = "new-order" -> PayloadIs(m.payload, "order")
      [] m.action \in {"pay-invoice", "add-invoice"} ->
            IF ~IsSome(m.id) THEN FALSE
            ELSE PayloadIs(m.payload, "payment_request")
      [] m.action \in IdOnlyActions ->
            IF ~IsSome(m.id) THEN FALSE ELSE TRUE
      [] m.action = "payment-failed" ->
            IF ~IsSome(m.id) THEN FALSE
            ELSE PayloadIs(m.payload, "payment_failed")
      [] m.action = "rate-user" -> PayloadIs(m.payload, "rating_user")
      [] m.action = "cant-do" -> PayloadIs(m.payload, "cant_do")
      [] m.action = "restore-session" ->
            IF IsSome(m.id) \/ IsSome(m.request_id) \/ IsSome(m.trade_index)
            THEN FALSE
            ELSE ~IsSome(m.payload) \/ PayloadIs(m.payload, "restore_data")
      [] m.action = "last-trade-index" ->
            IF ~IsSome(m.id) THEN FALSE
            ELSE ~IsSome(m.payload)
      [] m.action = "orders" ->
            PayloadIs(m.payload, "ids") \/ PayloadIs(m.payload, "orders")

\* MessageKind::verify
MessageKind_verify(m) ==
    CASE m.action = "new-order" -> PayloadIs(m.payload, "order")
      [] m.action \in {"pay-invoice", "add-invoice"} ->
            IF ~IsSome(m.id) THEN FALSE
            ELSE PayloadIs(m.payload, "payment_request")
      [] m.action \in IdOnlyActions ->
            IF ~IsSome(m.id) THEN FALSE ELSE TRUE
      [] m.action = "payment-failed" ->
            IF ~IsSome(m.id) THEN FALSE
            ELSE PayloadIs(m.payload, "payment_failed")
      [] m.action = "rate-user" -> PayloadIs(m.payload, "rating_user")
      [] m.action = "cant-do" -> PayloadIs(m.payload, "cant_do")
      [] m.action = "restore-session" ->
            IF IsSome(m.id) \/ IsSome(m.request_id) \/ IsSome(m.trade_index)
            THEN FALSE
            ELSE ~IsSome(m.payload) \/ PayloadIs(m.payload, "restore_data")
      [] m.action = "last-trade-index" ->
            IF ~IsSome(m.id) \/ IsSome(m.request_id) THEN FALSE
            ELSE ~IsSome(m.payload)
      [] m.action = "orders" ->
            PayloadIs(m.payload, "ids") \/ PayloadIs(m.payload, "orders")

\* Message::verify
Message_verify(message) == MessageKind_verify(message.inner)

\* the accessor without its upper limit
MessageKind_get_rating_open_top(m) ==
    IF PayloadIs(m.payload, "rating_user")
    THEN IF ~(Unwrap(m.payload).v >= MIN_RATING)
         THEN Err("InvalidRatingValue", "")
         ELSE Ok(Unwrap(m.payload).v)
    ELSE Err("InvalidRating", "")

\* MessageKind::get_rating
MessageKind_get_rating(m) ==
    IF PayloadIs(m.payload, "rating_user")
    THEN IF ~(Unwrap(m.payload).v >= MIN_RATING /\ Unwrap(m.payload).v <= MAX_RATING)
         THEN Err("InvalidRatingValue", "")
         ELSE Ok(Unwrap(m.payload).v)
    ELSE Err("InvalidRating", "")

(* serde_json: a JSON object is the sequence of its <<key, value>> members  *)
(* in the order written; a value is null, a number, a string, or the        *)
(* one-member object {tag: content} of an enum variant.                     *)
JNull == [t |-> "null", n |-> 0, s |-> ""]
JNum(n) == [t |-> "num", n |-> n, s |-> ""]
JStr(x) == [t |-> "str", n |-> 0, s |-> x]

\* an Option<number> or Option<string> field
JOptNum(o) == IF IsSome(o) THEN JNum(Unwrap(o)) ELSE JNull

\* the content of a variant in which a number's place holds null
JNullNumber == -2

\* serde_json writes an f64 that is NaN or infinite as null
JContent(tag, v) == IF tag = "peer" /\ v = NonFinite THEN JNullNumber ELSE v

JOptPayload(o) ==
    IF IsSome(o)
    THEN [t |-> "variant", n |-> JContent(Unwrap(o).tag, Unwrap(o).v),
          s |-> Unwrap(o).tag]
    ELSE JNull

\* #[derive(Serialize)] of MessageKind: the fields in declaration order, id
\* under skip_serializing_if = "Option::is_none"
MessageKind_as_json(m) ==
    <<<<"version", JNum(m.version)>>,
      <<"request_id", JOptNum(m.request_id)>>,
      <<"trade_index", JOptNum(m.trade_index)>>>>
    \o (IF IsSome(m.id) THEN <<<<"id", JStr(Unwrap(m.id))>>>> ELSE <<>>)
    \o <<<<"action", JStr(m.action)>>,
         <<"payload", JOptPayload(m.payload)>>>>

\* Message::as_json: {"<kind>": {...}}
Message_as_json(message) ==
    [kind |-> message.kind, members |-> MessageKind_as_json(message.inner)]

\* the value of member key of a JSON object, JNull when the object has none
\* (serde reads a missing Option field as None)
Member(members, key) ==
    IF \E i \in 1..Len(members) : members[i][1] = key
    THEN members[CHOOSE i \in 1..Len(members) : members[i][1] = key][2]
    ELSE JNull

\* Message::from_json: Option<Message>, None for MessageSerializationError
Message_from_json(j) ==
    LET f(key) == Member(j.members, key)
        num(v) == IF v.t = "num" THEN Some(v.n) ELSE None
    IN
    IF j.kind \notin {"order", "dispute", "cant-do", "rate", "dm", "restore"}
        \/ f("version").t # "num"
        \/ f("action").t # "str" \/ f("action").s \notin Action
        \/ f("request_id").t \notin {"num", "null"}
        \/ f("trade_index").t \notin {"num", "null"}
        \/ f("id").t \notin {"str", "null"}
        \/ f("payload").t \notin {"variant", "null"}
        \/ (f("payload").t = "variant" /\ f("payload").s \notin PayloadTags)
        \/ (f("payload").t = "variant" /\ f("payload").n = JNullNumber)
    THEN None
    ELSE Some([kind |-> j.kind,
               inner |-> [version |-> f("version").n,
                          request_id |-> num(f("request_id")),
                          trade_index |-> num(f("trade_index")),
                          id |-> IF f("id").t = "str" THEN Some(f("id").s) ELSE None,
                          action |-> f("action").s,
                          payload |-> IF f("payload").t = "variant"
                                      THEN Some(PayloadOf(f("payload").s, f("payload").n))
                                      ELSE None]])

\* Message::sign(message, keys): a Schnorr signature over the SHA-256 digest
\* of the string; the signed string stands for its digest
Message_sign(message, keys) == [digest |-> message, signer |-> keys]

\* keys.public_key(): the x-only point of the secret key; the secret key
\* stands for its point
Keys_public_key(keys) == [point |-> keys, on_curve |-> TRUE]

\* 32 bytes that are the x coordinate of no curve point
MalformedPublicKey == [point |-> "", on_curve |-> FALSE]

\* 64 bytes that no key made over any digest
MalformedSignature == [digest |-> [kind |-> "", members |-> <<>>], signer |-> ""]

\* pubkey.xonly()
PublicKey_xonly(pubkey) ==
    IF pubkey.on_curve THEN Ok(pubkey.point) ELSE Err("InvalidPublicKey", "")

\* xonlykey.verify(&secp, &message, &sig).is_ok(): a signature verifies
\* under the key that made it, over the digest it was made over
XOnly_verify(xonlykey, digest, sig) ==
    sig.signer = xonlykey /\ sig.digest = digest

\* verify_signature taking a key it cannot convert for a good one
Message_verify_signature_unconverted(message, pubkey, sig) ==
    IF PublicKey_xonly(pubkey).ok
    THEN XOnly_verify(PublicKey_xonly(pubkey).val, message, sig)
    ELSE TRUE

\* Message::verify_signature(message, pubkey, sig)
Message_verify_signature(message, pubkey, sig) ==
    IF PublicKey_xonly(pubkey).ok
    THEN XOnly_verify(PublicKey_xonly(pubkey).val, message, sig)
    ELSE FALSE

---------------------------------------------------------------------------
(* Inputs of the codec calls                                                *)

Filled(n, b) == [j \in 1..n |-> b]

\* what OsRng hands out: a 16 byte salt and a 12 byte nonce
Rnd == {[salt |-> Filled(SALT_SIZE, 1), nonce |-> Filled(NONCE_SIZE, 7)]}

\* strings no encrypt call wrote: "k1" (not base64), "", "AAAA" (3 bytes),
\* and the base64 of 27 and of 28 zero bytes
AdHoc ==
    {<<107, 49>>, <<>>, <<65, 65, 65, 65>>,
     BASE64_STANDARD_encode(Filled(NONCE_SIZE + SALT_SIZE - 1, 0)),
     BASE64_STANDARD_encode(Filled(NONCE_SIZE + SALT_SIZE, 0))}

\* a cache that earlier decrypt calls have filled: the password "f" under n
\* different salts, oldest first
FillPass == <<102>>
FillSalt(i) == Unwrap(SaltString_encode_b64(Filled(SALT_SIZE, 100 + i)))

FillKey(i) == make_cache_key(FillPass, FillSalt(i))
order_FillKey(i) == order_make_cache_key(FillPass, FillSalt(i))

\* the crypto.rs cache after decrypt calls for salts 1..n (n <= MAX_CACHE_SIZE)
Warm(n) ==
    [map |-> [k \in {FillKey(i) : i \in 1..n} |->
                derive_key(FillPass,
                    FillSalt(CHOOSE i \in 1..n : FillKey(i) = k)).val],
     order |-> [i \in 1..n |-> FillKey(i)]]

\* the order.rs cache after decrypt calls for salts 1..n
order_Warm(n) ==
    [map |-> [k \in {order_FillKey(i) : i \in 1..n} |->
                Unwrap(order_hash_password(FillPass,
                    FillSalt(CHOOSE i \in 1..n : order_FillKey(i) = k)))],
     order |-> [i \in 1..n |-> order_FillKey(i)]]

\* how many entries the caches hold when the explored calls start
Prefills == {0, MAX_CACHE_SIZE}

---------------------------------------------------------------------------
(* The codec as a state machine                                             *)

Codecs == {"crypto", "order"}

NoCall ==
    [op |-> "none", codec |-> "none", kind |-> "none", input |-> <<>>,
     pass |-> None, res |-> Ok(<<>>), lookup |-> "none", kdf |-> 0,
     full |-> FALSE, changed |-> FALSE]

CacheOf(codec) == IF codec = "crypto" THEN cache ELSE ocache

\* the outcome d of a decrypt call of codec on data, recorded and applied
AfterDecrypt(codec, kind, data, pw, d) ==
    /\ cache' = IF codec = "crypto" THEN d.cache ELSE cache
    /\ ocache' = IF codec = "order" THEN d.cache ELSE ocache
    /\ last' = [op |-> "decrypt_data", codec |-> codec, kind |-> kind,
                input |-> data, pass |-> pw, res |-> d.res, lookup |-> d.lookup,
                kdf |-> d.kdf,
                full |-> Cardinality(DOMAIN CacheOf(codec).map)
                           >= (IF codec = "crypto" THEN MAX_CACHE_SIZE
                                                   ELSE order_MAX_CACHE_SIZE),
                changed |-> d.cache # CacheOf(codec)]
    /\ decrypts' = decrypts + 1
    /\ UNCHANGED <<blob, stores, msg, verdict, json, signed, obs, wire, cop,
                   order, ocall, lock, thr>>

DecryptCall(codec, data, pw) ==
    IF codec = "crypto" THEN decrypt_data(cache, data, pw)
    ELSE order_decrypt_data(ocache, data, pw)

\* an encrypt entry point writes a field: "k1" or "e" with an acute accent
\* (two bytes of UTF-8), under no password or "p", with no fixed_salt or
\* the salt string of 8 bytes
StoreEncrypted ==
    /\ stores < MaxStores
    /\ \E codec \in Codecs, idkey \in {<<107, 49>>, <<195, 169>>},
          pw \in {None, Some(<<112>>)},
          fixed \in {None, SaltString_encode_b64(Filled(MIN_SALT_LEN, 3))},
          rnd \in Rnd :
        /\ codec = "order" => fixed = None
        /\ LET r == IF codec = "crypto" THEN store_encrypted(idkey, pw, fixed, rnd)
                    ELSE order_store_encrypted(idkey, pw, rnd)
           IN /\ blob' = IF r.ok /\ IsSome(pw)
                         THEN Some([text |-> r.val, plain |-> idkey,
                                    pass |-> Unwrap(pw), by |-> codec,
                                    via |-> "store_encrypted"])
                         ELSE blob
              /\ last' = [NoCall EXCEPT !.op = "store_encrypted", !.codec = codec,
                                        !.kind = "plain", !.input = idkey,
                                        !.pass = pw, !.res = r]
    /\ stores' = stores + 1
    /\ UNCHANGED <<cache, ocache, decrypts, msg, verdict, json, signed, obs, wire, cop,
                   order, ocall, lock, thr>>

\* a caller of the public derive_key and encrypt writes bytes of its own
EncryptBytes ==
    /\ stores < MaxStores
    /\ \E data \in {<<255>>}, pw \in {Some(<<112>>)}, rnd \in Rnd :
        LET p == Unwrap(pw)
            salt == Unwrap(SaltString_encode_b64(rnd.salt))
            key == derive_key(p, salt)
            r == encrypt(data, key.val, rnd.salt, rnd.nonce)
        IN /\ key.ok
           /\ blob' = IF r.ok
                      THEN Some([text |-> r.val, plain |-> data, pass |-> p,
                                 by |-> "crypto", via |-> "encrypt"])
                      ELSE blob
           /\ last' = [NoCall EXCEPT !.op = "encrypt", !.codec = "crypto",
                                     !.kind = "plain", !.input = data,
                                     !.pass = Some(p), !.res = r]
    /\ stores' = stores + 1
    /\ UNCHANGED <<cache, ocache, decrypts, msg, verdict, json, signed, obs, wire, cop,
                   order, ocall, lock, thr>>

\* a decrypt entry point reads the stored field
DecryptBlob ==
    /\ decrypts < MaxDecrypts
    /\ IsSome(blob)
    /\ \E codec \in Codecs, pw \in {None, Some(<<112>>), Some(<<113>>)} :
        AfterDecrypt(codec, "blob", Unwrap(blob).text, pw,
                     DecryptCall(codec, Unwrap(blob).text, pw))

\* the codec that wrote the stored field reads it, under the password it was
\* written with, with one bit of its ciphertext portion inverted; the input
\* is not recorded
DecryptTampered ==
    /\ decrypts < MaxDecrypts
    /\ IsSome(blob)
    /\ LET b == Unwrap(blob)
           bytes == Unwrap(BASE64_STANDARD_decode(b.text))
       IN \E pos \in (NONCE_SIZE + SALT_SIZE + 1)..Len(bytes), bit \in 0..7 :
            AfterDecrypt(b.by, "tampered", <<>>, Some(b.pass),
                         DecryptCall(b.by,
                             BASE64_STANDARD_encode(FlipAt(bytes, pos, bit)),
                             Some(b.pass)))

\* a decrypt entry point reads a string no encrypt call wrote
DecryptAdHoc ==
    /\ decrypts < MaxDecrypts
    /\ \E codec \in Codecs, pw \in {None, Some(<<112>>)}, data \in AdHoc :
        AfterDecrypt(codec, "adhoc", data, pw, DecryptCall(codec, data, pw))

---------------------------------------------------------------------------
(* The message flow as a state machine                                      *)

\* uuid, request id, trade index and trade keys of the repository's tests
Ids == {None, Some("308e1272-d5f4-47e6-bd97-3504baea9c23")}
RequestIds == {None, Some(1)}
\* trade_index is an Option<i64>: absent, the index of the tests, or one
\* below zero
TradeIndexes == {None, Some(2), Some(-1)}
TradeKeys == "110e43647eae221ab1da33ddc17fd6ff423f2b2f49d809b9ffa40794a2ab996c"
\* the keys a caller may hold: the trade keys and another pair
KeyPairs == {TradeKeys, "another-secret-key"}

\* no accessor has been called on the message in hand
NoObs == [op |-> "none"]
Payloads ==
    {None} \cup {Some(PayloadOf(t, 0)) : t \in PayloadTags \ {"rating_user"}}
           \cup {Some(PayloadOf("rating_user", v)) : v \in {0, 1, 5, 6}}
           \cup {Some(PayloadOf("peer", NonFinite))}

\* a caller builds an envelope with one of the constructors
Build ==
    /\ ~IsSome(msg) /\ ~IsSome(json)
    /\ \E id \in Ids, rid \in RequestIds, ti \in TradeIndexes,
          a \in Action, pl \in Payloads :
        \/ msg' = Some(Message_new_order(id, rid, ti, a, pl))
        \/ msg' = Some(Message_new_dispute(id, rid, ti, a, pl))
        \/ msg' = Some(Message_new_dm(id, rid, a, pl))
        \/ msg' = Some(Message_cant_do(id, rid, pl))
        \/ msg' = Some(Message_new_restore(pl))
    /\ verdict' = "unchecked"
    /\ json' = None
    /\ signed' = None
    /\ obs' = NoObs
    /\ wire' = None
    /\ UNCHANGED <<codecVars, orderVars>>

\* message.verify()
Verify ==
    /\ IsSome(msg)
    /\ verdict' = IF Message_verify(Unwrap(msg)) THEN "true" ELSE "false"
    /\ UNCHANGED <<msg, json, signed, obs, wire>>
    /\ UNCHANGED <<codecVars, orderVars>>

\* message.as_json()
AsJson ==
    /\ IsSome(msg)
    /\ json' = Some(Message_as_json(Unwrap(msg)))
    /\ wire' = Some([sent |-> Unwrap(msg), decoded |-> FALSE])
    /\ UNCHANGED <<msg, verdict, signed, obs>>
    /\ UNCHANGED <<codecVars, orderVars>>

\* Message::from_json(&json) on the receiving side
FromJson ==
    /\ IsSome(json)
    /\ msg' = Message_from_json(Unwrap(json))
    /\ verdict' = "unchecked"
    /\ wire' = IF IsSome(wire)
               THEN Some([Unwrap(wire) EXCEPT !.decoded = TRUE])
               ELSE wire
    /\ UNCHANGED <<json, signed, obs>>
    /\ UNCHANGED <<codecVars, orderVars>>

\* message.get_inner_message_kind().get_rating()
GetRating ==
    /\ IsSome(msg)
    /\ obs' = [op |-> "get_rating",
               res |-> MessageKind_get_rating(Unwrap(msg).inner)]
    /\ UNCHANGED <<msg, verdict, json, signed, wire>>
    /\ UNCHANGED <<codecVars, orderVars>>

\* Message::verify_signature on the receiving side, given the string or
\* another one, the signer's public key, another one or a malformed one, and
\* the signature made or a malformed one
VerifySignature ==
    /\ IsSome(json) /\ IsSome(signed)
    /\ \E text \in {Unwrap(json),
                    [Unwrap(json) EXCEPT !.members = Tail(@)]},
          pubkey \in {Keys_public_key(k) : k \in KeyPairs} \cup {MalformedPublicKey},
          sig \in {Unwrap(signed).sig, MalformedSignature} :
        obs' = [op |-> "verify_signature", text |-> text, pubkey |-> pubkey,
                sig |-> sig, made |-> Unwrap(signed),
                res |-> Message_verify_signature(text, pubkey, sig)]
    /\ UNCHANGED <<msg, verdict, json, signed, wire>>
    /\ UNCHANGED <<codecVars, orderVars>>

\* the flow without its assertion
FlowAsserts_skipped == TRUE

\* the assertion the repository's own flow makes before it serializes and
\* signs: assert!(test_message.verify())
FlowAsserts == verdict = "true"

\* the flow of test_message_payload_signature: verify, as_json, sign
FlowSign ==
    /\ IsSome(msg) /\ IsSome(json)
    /\ Unwrap(json) = Message_as_json(Unwrap(msg))
    /\ FlowAsserts
    /\ signed' = Some([sig |-> Message_sign(Unwrap(json), TradeKeys),
                       of |-> Unwrap(msg), verified |-> verdict, via |-> "flow",
                       text |-> Unwrap(json), keys |-> TradeKeys])
    /\ UNCHANGED <<msg, verdict, json, obs, wire>>
    /\ UNCHANGED <<codecVars, orderVars>>

\* Message::sign called on a serialized message: it takes any string
Sign ==
    /\ IsSome(msg) /\ IsSome(json)
    /\ Unwrap(json) = Message_as_json(Unwrap(msg))
    /\ \E keys \in KeyPairs :
        signed' = Some([sig |-> Message_sign(Unwrap(json), keys),
                        of |-> Unwrap(msg), verified |-> verdict, via |-> "sign",
                        text |-> Unwrap(json), keys |-> keys])
    /\ UNCHANGED <<msg, verdict, json, obs, wire>>
    /\ UNCHANGED <<codecVars, orderVars>>

---------------------------------------------------------------------------
(* One cache under test as a state machine                                  *)

\* no call has been made on the cache under test
NoCop == [op |-> "none"]

\* the i-th key of the cache of codec, and the fixed capacity of that cache
KeyOf(codec, i) == IF codec = "crypto" THEN FillKey(i) ELSE order_FillKey(i)
CapacityOf(codec) ==
    IF codec = "crypto" THEN MAX_CACHE_SIZE ELSE order_MAX_CACHE_SIZE

\* the [u8; 32] value put with the i-th key
ValueOf(i) == Filled(DERIVED_KEY_LENGTH, 1 + (i % 2))

\* the keys whose last access (put or successful get) lies furthest back
OldestKeys(stamp) ==
    {k \in DOMAIN stamp : \A j \in DOMAIN stamp : stamp[k] <= stamp[j]}

\* a field of 44 bytes under the i-th salt: nonce, salt, and 16 bytes that
\* are no tag of any key
FieldUnder(i) ==
    BASE64_STANDARD_encode(Filled(NONCE_SIZE, 7) \o Filled(SALT_SIZE, 100 + i)
                           \o Filled(TAG_SIZE, 0))

\* the state before any call on the cache of codec
NoCopOn(codec) ==
    [op |-> "none", codec |-> codec, key |-> <<>>, value |-> <<>>,
     ret |-> None, before |-> SimpleCache_new, fresh |-> 0, extras |-> 0,
     gets |-> 0, tick |-> 0, stamp |-> <<>>, oldest |-> {}, prev |-> None,
     live |-> <<>>, released |-> {}, lookup |-> "none", kdf |-> 0,
     res |-> Ok(<<>>), again |-> FALSE]

\* the call op(key, value) took the cache under test from CacheOf(codec) to
\* c2 and returned ret: the caches, and a record of the call kept beside
\* them (what was put and not evicted since, when each key was last
\* accessed)
CacheStep(op, key, value, c2, ret, seen, fresh, extras) ==
    LET codec == cop.codec
        c == CacheOf(codec)
        removed == DOMAIN c.map \ DOMAIN c2.map
        touched == op = "put" \/ key \in DOMAIN c2.map
        tick == cop.tick + 1
        kept == DOMAIN cop.stamp \ removed
        put == DOMAIN cop.live \ removed
    IN
    /\ cache' = IF codec = "crypto" THEN c2 ELSE cache
    /\ ocache' = IF codec = "order" THEN c2 ELSE ocache
    /\ cop' = [op |-> op, codec |-> codec, key |-> key, value |-> value,
               ret |-> ret, before |-> c, fresh |-> fresh, extras |-> extras,
               gets |-> cop.gets + (IF op = "get" THEN 1 ELSE 0),
               tick |-> tick,
               stamp |-> [k \in kept \cup (IF touched THEN {key} ELSE {}) |->
                            IF k = key /\ touched THEN tick ELSE cop.stamp[k]],
               oldest |-> OldestKeys(cop.stamp),
               prev |-> IF cop.op = "none" \/ cop.key \notin DOMAIN c.map
                        THEN None ELSE Some(cop.key),
               live |-> [k \in put \cup (IF op = "put" THEN {key} ELSE {}) |->
                           IF k = key /\ op = "put" THEN value ELSE cop.live[k]],
               released |->
                   IF op = "put" \/ (op = "decrypt" /\ seen.lookup = "miss"
                                                    /\ key \in DOMAIN c2.map)
                   THEN PutReleased(c, key, CapacityOf(codec))
                   ELSE {},
               lookup |-> seen.lookup, kdf |-> seen.kdf,
               res |-> seen.res, again |-> seen.again]
    /\ UNCHANGED <<blob, last, stores, decrypts, msg, verdict, json, signed,
                   obs, wire, order, ocall, lock, thr>>

\* the cache under test has not been torn down
Alive == cop.op \notin {"drop", "exit"}

\* a call that is no decrypt call looks nothing up for a decrypt
NotSeen == [lookup |-> "none", kdf |-> 0, res |-> Ok(<<>>), again |-> FALSE]

\* the keys a caller comes back to: the first one ever put, the last one
\* put, and one that was never put
Revisited == {i \in {1, cop.fresh, MaxFresh + 1} : i >= 1}

\* cache.put(key, value) with a key never put before
PutFresh ==
    /\ Alive
    /\ cop.fresh < MaxFresh
    /\ LET key == KeyOf(cop.codec, cop.fresh + 1)
           value == ValueOf(cop.fresh + 1)
           c2 == CachePut(CacheOf(cop.codec), key, value, CapacityOf(cop.codec))
       IN CacheStep("put", key, value, c2, None, NotSeen, cop.fresh + 1, cop.extras)

\* cache.put(key, value) with a key the caller comes back to, and another
\* value than the one first put with it
PutAgain ==
    /\ Alive
    /\ cop.extras < MaxCacheExtras
    /\ \E i \in Revisited \ {MaxFresh + 1} :
        LET key == KeyOf(cop.codec, i)
            value == ValueOf(i + 1)
            c2 == CachePut(CacheOf(cop.codec), key, value, CapacityOf(cop.codec))
        IN CacheStep("put", key, value, c2, None, NotSeen, cop.fresh, cop.extras + 1)

\* cache.get(key)
Get ==
    /\ Alive
    /\ cop.extras < MaxCacheExtras
    /\ \E i \in Revisited :
        LET key == KeyOf(cop.codec, i)
            got == SimpleCache_get(CacheOf(cop.codec), key)
        IN CacheStep("get", key, <<>>, got.cache, got.value, NotSeen,
                     cop.fresh, cop.extras + 1)

\* a decrypt call on a field under one of the salts: a get, and on a miss a
\* put of the derived key; the call is a new one, or the call just made is
\* made once more on the same field under the same password
CacheDecrypt ==
    /\ Alive
    /\ \E i \in Revisited, again \in BOOLEAN :
        /\ IF again
           THEN cop.op = "decrypt" /\ ~cop.again /\ KeyOf(cop.codec, i) = cop.key
           ELSE cop.extras < MaxCacheExtras
        /\ LET key == KeyOf(cop.codec, i)
               d == IF cop.codec = "crypto"
                    THEN decrypt_data(cache, FieldUnder(i), Some(FillPass))
                    ELSE order_decrypt_data(ocache, FieldUnder(i), Some(FillPass))
           IN CacheStep("decrypt", key, <<>>, d.cache, None,
                        [lookup |-> d.lookup, kdf |-> d.kdf, res |-> d.res,
                         again |-> again],
                        cop.fresh, IF again THEN cop.extras ELSE cop.extras + 1)

\* the end of the cache under test: by how it ended, the cache it leaves
\* and what the memory it gave up holds
Teardown(how, t) ==
    /\ Alive
    /\ cop.extras < MaxCacheExtras
    /\ cache' = IF cop.codec = "crypto" THEN t.cache ELSE cache
    /\ ocache' = IF cop.codec = "order" THEN t.cache ELSE ocache
    /\ cop' = [cop EXCEPT !.op = how, !.before = CacheOf(cop.codec),
                          !.released = t.released,
                          !.extras = cop.extras + 1]
    /\ UNCHANGED <<blob, last, stores, decrypts, msg, verdict, json, signed,
                   obs, wire, order, ocall, lock, thr>>

\* a SimpleCache is dropped
Drop == Teardown("drop", SimpleCache_drop(cop.codec, CacheOf(cop.codec)))

\* the process shuts down with its KEY_CACHE
Exit == Teardown("exit", KEY_CACHE_at_exit(CacheOf(cop.codec)))

---------------------------------------------------------------------------
(* Order (order.rs): failed payments and disputes                           *)

\* count_failed_payment taking one attempt more than retries_number
Order_count_failed_payment_one_more(o, retries_number) ==
    IF ~o.failed_payment
    THEN [o EXCEPT !.failed_payment = TRUE, !.payment_attempts = 0]
    ELSE IF o.payment_attempts <= retries_number
    THEN [o EXCEPT !.payment_attempts = o.payment_attempts + 1]
    ELSE o

\* Order::count_failed_payment(&mut self, retries_number)
Order_count_failed_payment(o, retries_number) ==
    IF ~o.failed_payment
    THEN [o EXCEPT !.failed_payment = TRUE, !.payment_attempts = 0]
    ELSE IF o.payment_attempts < retries_number
    THEN [o EXCEPT !.payment_attempts = o.payment_attempts + 1]
    ELSE o

\* setup_dispute that returns its error before it sets the status
Order_setup_dispute_error_first(o, is_buyer_dispute) ==
    LET is_seller_dispute == ~is_buyer_dispute
        update_seller_dispute == is_seller_dispute /\ ~o.seller_dispute
        update_buyer_dispute == ~update_seller_dispute
                                /\ is_buyer_dispute /\ ~o.buyer_dispute
        flagged == [o EXCEPT
                      !.seller_dispute = IF update_seller_dispute THEN TRUE ELSE @,
                      !.buyer_dispute = IF update_buyer_dispute THEN TRUE ELSE @]
    IN
    IF ~update_buyer_dispute /\ ~update_seller_dispute
    THEN [order |-> flagged, res |-> Err("DisputeCreationError", "")]
    ELSE [order |-> [flagged EXCEPT !.status = "dispute"], res |-> Ok(<<>>)]

\* Order::setup_dispute(&mut self, is_buyer_dispute): the order afterwards
\* and the Result
Order_setup_dispute(o, is_buyer_dispute) ==
    LET is_seller_dispute == ~is_buyer_dispute
        update_seller_dispute == is_seller_dispute /\ ~o.seller_dispute
        update_buyer_dispute == ~update_seller_dispute
                                /\ is_buyer_dispute /\ ~o.buyer_dispute
        flagged == [o EXCEPT
                      !.seller_dispute = IF update_seller_dispute THEN TRUE ELSE @,
                      !.buyer_dispute = IF update_buyer_dispute THEN TRUE ELSE @]
        after == [flagged EXCEPT !.status = "dispute"]
    IN
    IF ~update_buyer_dispute /\ ~update_seller_dispute
    THEN [order |-> after, res |-> Err("DisputeCreationError", "")]
    ELSE [order |-> after, res |-> Ok(<<>>)]

\* the orders the calls start from: no failed payment yet; the fields are
\* public, so a dispute flag may stand while the status has moved on, and
\* payment_attempts need not be the 0 that From<SmallOrder> sets
NewOrders ==
    {[status |-> st, buyer_dispute |-> bd, seller_dispute |-> sd,
      failed_payment |-> FALSE, payment_attempts |-> n] :
        st \in {"pending", "active"}, bd \in BOOLEAN, sd \in BOOLEAN,
        n \in {0, 3}}

\* no call has been made on the order; r is the retries_number of the run
NoOcall(o, r) ==
    [op |-> "none", arg |-> FALSE, res |-> Ok(<<>>), before |-> o, r |-> r,
     calls |-> 0, counted |-> 0]

\* order.count_failed_payment(r)
CountFailedPayment ==
    /\ ocall.calls < MaxOrderCalls
    /\ order' = Order_count_failed_payment(order, ocall.r)
    /\ ocall' = [ocall EXCEPT !.op = "count_failed_payment", !.arg = FALSE,
                              !.res = Ok(<<>>), !.before = order,
                              !.calls = ocall.calls + 1,
                              !.counted = ocall.counted + 1]
    /\ UNCHANGED <<codecVars, msg, verdict, json, signed, obs, wire>>

\* order.setup_dispute(is_buyer_dispute)
SetupDispute ==
    /\ ocall.calls < MaxOrderCalls
    /\ \E is_buyer_dispute \in BOOLEAN :
        LET d == Order_setup_dispute(order, is_buyer_dispute) IN
        /\ order' = d.order
        /\ ocall' = [ocall EXCEPT !.op = "setup_dispute",
                                  !.arg = is_buyer_dispute, !.res = d.res,
                                  !.before = order,
                                  !.calls = ocall.calls + 1]
    /\ UNCHANGED <<codecVars, msg, verdict, json, signed, obs, wire>>

---------------------------------------------------------------------------
(* Concurrent decrypt calls on KEY_CACHE (crypto.rs)                        *)

Threads == 1..MaxThreads

\* no thread is inside decrypt
IdleThreads == [t \in Threads |-> [pc |-> "idle", salt |-> 1, calls |-> 0]]

\* a lock that any number of writers may take
LockFree_shared(holders) == TRUE

\* RwLock::write() returns when no thread holds the lock
LockFree(holders) == holders = {}

\* the thread is between KEY_CACHE.write() and the end of decrypt
InSection(t) == thr[t].pc \in {"locked", "derive", "insert", "open"}

\* what the threads leave alone
LockFrame ==
    UNCHANGED <<ocache, blob, last, stores, decrypts, cop, msg, verdict, json,
                signed, obs, wire, orderVars>>

\* a thread calls decrypt: it splits the field and makes the cache key; the
\* warm cache holds a key for salt 1 and none for the other two
Call(t) ==
    /\ thr[t].pc = "idle" /\ thr[t].calls < MaxThreadCalls
    /\ \E i \in {1, MAX_CACHE_SIZE + 1, MAX_CACHE_SIZE + 2} :
        thr' = [thr EXCEPT ![t] = [pc |-> "waiting", salt |-> i,
                                   calls |-> thr[t].calls + 1]]
    /\ UNCHANGED <<cache, lock>>
    /\ LockFrame

\* KEY_CACHE.write()
Acquire(t) ==
    /\ thr[t].pc = "waiting"
    /\ LockFree(lock)
    /\ lock' = lock \cup {t}
    /\ thr' = [thr EXCEPT ![t].pc = "locked"]
    /\ UNCHANGED cache
    /\ LockFrame

\* cache.expose_secret_mut().get(cache_key)
Lookup(t) ==
    /\ thr[t].pc = "locked"
    /\ LET got == SimpleCache_get(cache, FillKey(thr[t].salt)) IN
        /\ cache' = got.cache
        /\ thr' = [thr EXCEPT ![t].pc = IF IsSome(got.value) THEN "open" ELSE "derive"]
    /\ UNCHANGED lock
    /\ LockFrame

\* CryptoUtils::derive_key(password, &salt)
Derive(t) ==
    /\ thr[t].pc = "derive"
    /\ thr' = [thr EXCEPT ![t].pc =
                  IF derive_key(FillPass, FillSalt(thr[t].salt)).ok
                  THEN "insert" ELSE "open"]
    /\ UNCHANGED <<cache, lock>>
    /\ LockFrame

\* cache.expose_secret_mut().put(cache_key, key_array)
Insert(t) ==
    /\ thr[t].pc = "insert"
    /\ cache' = SimpleCache_put(cache, FillKey(thr[t].salt),
                                derive_key(FillPass, FillSalt(thr[t].salt)).val)
    /\ thr' = [thr EXCEPT ![t].pc = "open"]
    /\ UNCHANGED lock
    /\ LockFrame

\* cipher.decrypt and the return: the guard goes out of scope
Return(t) ==
    /\ thr[t].pc = "open"
    /\ lock' = lock \ {t}
    /\ thr' = [thr EXCEPT ![t].pc = "idle"]
    /\ UNCHANGED cache
    /\ LockFrame

---------------------------------------------------------------------------
(* Specifications                                                           *)

\* no order call and no thread
Quiet ==
    /\ order = [status |-> "pending", buyer_dispute |-> FALSE,
                seller_dispute |-> FALSE, failed_payment |-> FALSE,
                payment_attempts |-> 0]
    /\ ocall = NoOcall(order, 0)
    /\ lock = {}
    /\ thr = IdleThreads


InitMsg ==
    /\ msg = None /\ verdict = "unchecked" /\ json = None /\ signed = None
    /\ obs = NoObs /\ wire = None /\ cop = NoCop
    /\ Quiet

Init ==
    /\ \E n \in Prefills :
        /\ cache = Warm(n)
        /\ ocache = order_Warm(n)
    /\ blob = None
    /\ last = NoCall
    /\ stores = 0
    /\ decrypts = 0
    /\ InitMsg

Next ==
    \/ StoreEncrypted
    \/ EncryptBytes
    \/ DecryptBlob
    \/ DecryptTampered
    \/ DecryptAdHoc

\* the codec: encrypt and decrypt calls against the two key caches
Spec == Init /\ [][Next]_vars

MsgInit ==
    /\ cache = SimpleCache_new
    /\ ocache = SimpleCache_new
    /\ blob = None
    /\ last = NoCall
    /\ stores = 0
    /\ decrypts = 0
    /\ InitMsg

MsgNext ==
    \/ Build
    \/ Verify
    \/ AsJson
    \/ FromJson
    \/ FlowSign
    \/ Sign

\* the message envelope: build, verify, serialize, sign
MsgSpec == MsgInit /\ [][MsgNext]_vars

\* the message of test_message_payload_signature in hand, with or without
\* each of its optional fields
SigInit ==
    /\ cache = SimpleCache_new
    /\ ocache = SimpleCache_new
    /\ blob = None
    /\ last = NoCall
    /\ stores = 0
    /\ decrypts = 0
    /\ \E id \in Ids, rid \in RequestIds, ti \in TradeIndexes :
        msg = Some(Message_new_order(id, rid, ti, "fiat-sent-ok",
                                     Some(PayloadOf("peer", 0))))
    /\ verdict = "unchecked" /\ json = None /\ signed = None
    /\ obs = NoObs /\ wire = None /\ cop = NoCop
    /\ Quiet

SigNext ==
    \/ AsJson
    \/ Sign
    \/ VerifySignature

\* signing a serialized message and verifying signatures over it
SigSpec == SigInit /\ [][SigNext]_vars

CacheInit ==
    /\ cache = SimpleCache_new
    /\ ocache = SimpleCache_new
    /\ blob = None
    /\ last = NoCall
    /\ stores = 0
    /\ decrypts = 0
    /\ msg = None /\ verdict = "unchecked" /\ json = None /\ signed = None
    /\ obs = NoObs /\ wire = None
    /\ \E codec \in Codecs : cop = NoCopOn(codec)
    /\ Quiet

CacheNext ==
    \/ Drop
    \/ Exit
    \/ PutFresh
    \/ PutAgain
    \/ Get
    \/ CacheDecrypt

\* one key cache, empty at first, under puts, gets and decrypt calls
CacheSpec == CacheInit /\ [][CacheNext]_vars

OrderInit ==
    /\ cache = SimpleCache_new
    /\ ocache = SimpleCache_new
    /\ blob = None
    /\ last = NoCall
    /\ stores = 0
    /\ decrypts = 0
    /\ msg = None /\ verdict = "unchecked" /\ json = None /\ signed = None
    /\ obs = NoObs /\ wire = None /\ cop = NoCop
    /\ lock = {}
    /\ thr = IdleThreads
    /\ order \in NewOrders
    /\ \E r \in 0..MaxRetries : ocall = NoOcall(order, r)

OrderNext ==
    \/ CountFailedPayment
    \/ SetupDispute

\* one order under count_failed_payment and setup_dispute calls
OrderSpec == OrderInit /\ [][OrderNext]_vars

LockInit ==
    /\ \E n \in Prefills : cache = Warm(n)
    /\ ocache = SimpleCache_new
    /\ blob = None
    /\ last = NoCall
    /\ stores = 0
    /\ decrypts = 0
    /\ InitMsg

LockNext ==
    \/ \E t \in Threads : Call(t)
    \/ \E t \in Threads : Acquire(t)
    \/ \E t \in Threads : Lookup(t)
    \/ \E t \in Threads : Derive(t)
    \/ \E t \in Threads : Insert(t)
    \/ \E t \in Threads : Return(t)

\* threads calling decrypt on the one KEY_CACHE
LockSpec == LockInit /\ [][LockNext]_vars

RatingNext ==
    \/ Build
    \/ GetRating

\* the rating accessor on envelopes as the constructors leave them
RatingSpec == MsgInit /\ [][RatingNext]_vars

---------------------------------------------------------------------------
(* Properties of the field codec, checked under Spec                        *)

\* the last call was a decrypt call of the stored field, unaltered
ReadBlob == last.op = "decrypt_data" /\ last.kind = "blob" /\ IsSome(blob)

\* ... by an entry point of the codec that wrote it, under the password it
\* was written with, the plaintext being UTF-8
ReadBack ==
    /\ ReadBlob
    /\ last.codec = Unwrap(blob).by
    /\ last.pass = Some(Unwrap(blob).pass)
    /\ IsUtf8(Unwrap(blob).plain)

\* C1: decrypting, with the passphrase p, the blob that encrypting the UTF-8
\* plaintext s with p produced returns exactly s, whether the key cache was
\* empty or filled, whether the key was found in it or not
C1_RoundTrip == ReadBack => last.res = Ok(Unwrap(blob).plain)

\* a round trip whose decrypt call found its key in a full cache
C1_Witness ==
    /\ ReadBack
    /\ last.codec = "crypto"
    /\ last.lookup = "hit"
    /\ last.full
    /\ last.res = Ok(Unwrap(blob).plain)

\* the first read of a blob: the key is not in the cache, which is empty
C1_WitnessMissEmpty ==
    /\ ReadBack
    /\ last.lookup = "miss"
    /\ ~last.full
    /\ Len(cache.order) = 1
    /\ last.res = Ok(Unwrap(blob).plain)

\* the first read of a blob with the cache full: the oldest key is evicted
C1_WitnessMissFull ==
    /\ ReadBack
    /\ last.lookup = "miss"
    /\ last.full
    /\ last.changed
    /\ last.res = Ok(Unwrap(blob).plain)

\* C2: a blob written under passphrase p, with any one bit of its ciphertext
\* or tag inverted, makes the decrypt call with p fail with DecryptionError;
\* no plaintext comes back
C2_TamperDetected ==
    (last.op = "decrypt_data" /\ last.kind = "tampered")
        => (~last.res.ok /\ last.res.err = "DecryptionError" /\ last.res.val = <<>>)

\* a tampered blob refused by a call that found the right key in the cache
C2_Witness ==
    /\ last.op = "decrypt_data" /\ last.kind = "tampered"
    /\ last.codec = "crypto"
    /\ last.lookup = "hit"
    /\ last.res = Err("DecryptionError", "aead::Error")

\* C3: with no passphrase the encrypt call returns its plaintext and the
\* decrypt call its input, unchanged, for every input, without an error,
\* without a lookup in the key cache, a key derivation or a change of the
\* cache
C3_PassThrough ==
    /\ (last.op = "store_encrypted" /\ last.pass = None)
            => last.res = Ok(last.input)
    /\ (last.op = "decrypt_data" /\ last.pass = None)
            => /\ last.res = Ok(last.input)
               /\ last.lookup = "none"
               /\ last.kdf = 0
               /\ ~last.changed

\* "k1", which is not base64, read back unchanged past a full cache
C3_Witness ==
    /\ last.op = "decrypt_data" /\ last.pass = None
    /\ last.codec = "crypto"
    /\ last.input = <<107, 49>>
    /\ ~IsSome(BASE64_STANDARD_decode(last.input))
    /\ last.res = Ok(<<107, 49>>)
    /\ last.full

\* the last call was a decrypt call, with a passphrase, of a string that
\* decodes to fewer than NONCE_SIZE + SALT_SIZE bytes
ShortInput ==
    /\ last.op = "decrypt_data" /\ last.kind = "adhoc"
    /\ IsSome(last.pass)
    /\ IsSome(BASE64_STANDARD_decode(last.input))
    /\ Len(Unwrap(BASE64_STANDARD_decode(last.input))) < 28

\* C4: with a passphrase, a decrypt call on an input that decodes to fewer
\* than 28 bytes returns DecryptionError (no panic, no plaintext) before any
\* cache lookup or key derivation
C4_ShortInputRejected ==
    ShortInput =>
        /\ last.res.err = "DecryptionError"
        /\ last.lookup = "none"
        /\ last.kdf = 0

\* C5: a blob written by any encrypt entry point is read back by any decrypt
\* entry point given the same passphrase: all of them derive the key with
\* one parameter set
C5_MutuallyDecryptable ==
    (/\ ReadBlob
     /\ last.pass = Some(Unwrap(blob).pass)
     /\ IsUtf8(Unwrap(blob).plain))
        => last.res = Ok(Unwrap(blob).plain)

\* a key cache none of whose entries is torn: every key of the map is in the
\* access queue exactly once, every key of the queue is in the map, and
\* every value is a key of DERIVED_KEY_LENGTH bytes
CacheWhole(c) ==
    /\ DOMAIN c.map = {c.order[i] : i \in 1..Len(c.order)}
    /\ Len(c.order) = Cardinality(DOMAIN c.map)
    /\ \A k \in DOMAIN c.map : Len(c.map[k]) = DERIVED_KEY_LENGTH

\* C6: a decrypt call returns the complete plaintext or no plaintext at
\* all (an error; a call that panics returns none either), and after any
\* decrypt call, successful or failed, every entry of the key cache is a
\* complete pair of a cache key and a 32 byte key, in the map and in the
\* access queue
C6_NoPartialState ==
    /\ last.op = "decrypt_data" =>
        /\ ~last.res.ok => last.res.val = <<>>
        /\ (last.res.ok /\ IsSome(last.pass)) =>
                /\ last.kind \in {"blob", "tampered"}
                /\ IsSome(blob)
                /\ last.res.val = Unwrap(blob).plain
    /\ CacheWhole(cache)
    /\ CacheWhole(ocache)

\* a failed decrypt call (the wrong passphrase) that had derived a key and
\* put it into the full cache, evicting the oldest
C6_Witness ==
    /\ ReadBlob
    /\ last.codec = "crypto"
    /\ last.pass = Some(<<113>>)
    /\ last.res = Err("DecryptionError", "aead::Error")
    /\ last.lookup = "miss"
    /\ last.full
    /\ last.changed
    /\ Cardinality(DOMAIN cache.map) = MAX_CACHE_SIZE

---------------------------------------------------------------------------
(* Properties of the message envelope, checked under MsgSpec                *)

Verified == IsSome(msg) /\ verdict # "unchecked"

\* the MessageKind of the message at hand
Kind == Unwrap(msg).inner

\* C8: for new-order, cant-do and orders verify() is true iff the payload
\* is Order, CantDo, or Ids or Orders respectively, whatever id, request_id
\* and trade_index are; no payload gives false
C8_PayloadOnly ==
    Verified =>
        /\ Kind.action = "new-order" =>
            (verdict = "true" <=>
                (IsSome(Kind.payload) /\ Unwrap(Kind.payload).tag = "order"))
        /\ Kind.action = "cant-do" =>
            (verdict = "true" <=>
                (IsSome(Kind.payload) /\ Unwrap(Kind.payload).tag = "cant_do"))
        /\ Kind.action = "orders" =>
            (verdict = "true" <=>
                (IsSome(Kind.payload) /\ Unwrap(Kind.payload).tag \in {"ids", "orders"}))
        /\ (Kind.action \in {"new-order", "cant-do", "orders"} /\ Kind.payload = None)
                => verdict = "false"

\* a new-order message with an Order payload and neither id, request_id nor
\* trade_index, verified
C8_Witness ==
    /\ Verified
    /\ Kind.action = "new-order"
    /\ Kind.id = None /\ Kind.request_id = None /\ Kind.trade_index = None
    /\ Kind.payload = Some(PayloadOf("order", 0))
    /\ verdict = "true"

\* C9: for pay-invoice and add-invoice verify() is true iff id is present
\* and the payload is PaymentRequest; for payment-failed, iff id is present
\* and the payload is PaymentFailed; request_id and trade_index have no say
C9_IdAndPayload ==
    Verified =>
        /\ Kind.action \in {"pay-invoice", "add-invoice"} =>
            (verdict = "true" <=>
                (/\ Kind.id # None
                 /\ IsSome(Kind.payload)
                 /\ Unwrap(Kind.payload).tag = "payment_request"))
        /\ Kind.action = "payment-failed" =>
            (verdict = "true" <=>
                (/\ Kind.id # None
                 /\ IsSome(Kind.payload)
                 /\ Unwrap(Kind.payload).tag = "payment_failed"))

\* the message of test_payment_failed_payload, verified
C9_Witness ==
    /\ Verified
    /\ Kind.action = "payment-failed"
    /\ Kind.id # None
    /\ Kind.request_id = Some(1) /\ Kind.trade_index = Some(2)
    /\ Kind.payload = Some(PayloadOf("payment_failed", 0))
    /\ verdict = "true"

\* the actions C10 lists, by wire name
C10_Actions ==
    {"take-sell", "take-buy", "fiat-sent", "fiat-sent-ok", "release", "released",
     "cancel", "canceled", "dispute",
     "admin-cancel", "admin-canceled", "admin-settle", "admin-settled",
     "admin-add-solver", "admin-take-dispute", "admin-took-dispute",
     "rate", "rate-received",
     "cooperative-cancel-initiated-by-you", "cooperative-cancel-initiated-by-peer",
     "cooperative-cancel-accepted",
     "dispute-initiated-by-you", "dispute-initiated-by-peer",
     "hold-invoice-payment-accepted", "hold-invoice-payment-settled",
     "hold-invoice-payment-canceled",
     "waiting-seller-to-pay", "waiting-buyer-invoice",
     "buyer-took-order", "buyer-invoice-accepted", "purchase-completed",
     "invoice-updated", "send-dm", "trade-pubkey"}

\* C10: for every action of the id-only class verify() is true iff id is
\* present, whatever the payload (any variant or none), request_id and
\* trade_index are
C10_IdOnly ==
    (Verified /\ Kind.action \in C10_Actions) =>
        (verdict = "true" <=> Kind.id # None)

\* a send-dm message with an id and no payload, verified
C10_Witness ==
    /\ Verified
    /\ Kind.action = "send-dm"
    /\ Kind.id # None
    /\ Kind.payload = None
    /\ verdict = "true"

\* an id-only message without an id, refused although it carries a payload
C10_WitnessRefused ==
    /\ Verified
    /\ Kind.action = "release"
    /\ Kind.id = None
    /\ Kind.payload # None
    /\ verdict = "false"

\* C11: for rate-user verify() is true only if the payload is RatingUser
\* with a value from MIN_RATING to MAX_RATING
C11_RatingInRange ==
    (Verified /\ Kind.action = "rate-user" /\ verdict = "true") =>
        /\ IsSome(Kind.payload)
        /\ Unwrap(Kind.payload).tag = "rating_user"
        /\ Unwrap(Kind.payload).v >= MIN_RATING
        /\ Unwrap(Kind.payload).v <= MAX_RATING

\* C12: for restore-session verify() is true iff id, request_id and
\* trade_index are all absent and the payload is absent or RestoreData; and
\* Message::new_restore builds its message with the three absent
C12_RestoreSession ==
    /\ (Verified /\ Kind.action = "restore-session") =>
        (verdict = "true" <=>
            (/\ Kind.id = None /\ Kind.request_id = None /\ Kind.trade_index = None
             /\ (Kind.payload = None \/ Unwrap(Kind.payload).tag = "restore_data")))
    /\ (IsSome(msg) /\ Unwrap(msg).kind = "restore") =>
        /\ Kind.action = "restore-session"
        /\ Kind.id = None /\ Kind.request_id = None /\ Kind.trade_index = None

\* a restore-session message with only a trade index, refused
C12_Witness ==
    /\ Verified
    /\ Kind.action = "restore-session"
    /\ Kind.id = None /\ Kind.request_id = None /\ Kind.trade_index = Some(2)
    /\ Kind.payload = None
    /\ verdict = "false"

\* the message Message::new_restore builds around RestoreData, accepted
C12_WitnessAccepted ==
    /\ Verified
    /\ Unwrap(msg).kind = "restore"
    /\ Kind.payload = Some(PayloadOf("restore_data", 0))
    /\ verdict = "true"

\* C13: for last-trade-index verify() is true iff id is present, request_id
\* is absent and the payload is absent, whatever trade_index is
C13_LastTradeIndex ==
    (Verified /\ Kind.action = "last-trade-index") =>
        (verdict = "true" <=>
            (Kind.id # None /\ Kind.request_id = None /\ Kind.payload = None))

\* a last-trade-index message with id and request_id, refused
C13_Witness ==
    /\ Verified
    /\ Kind.action = "last-trade-index"
    /\ Kind.id # None /\ Kind.request_id = Some(1) /\ Kind.payload = None
    /\ verdict = "false"

\* the message of test_last_trade_index_valid_message, but for its values
C13_WitnessAccepted ==
    /\ Verified
    /\ Kind.action = "last-trade-index"
    /\ Kind.id # None /\ Kind.request_id = None /\ Kind.trade_index = Some(2)
    /\ Kind.payload = None
    /\ verdict = "true"

\* C14: get_rating returns Ok(v) exactly when the payload is RatingUser(v)
\* with MIN_RATING <= v <= MAX_RATING; for RatingUser(v) outside that range
\* (0 or 6) it returns InvalidRatingValue, and for an absent payload or any
\* other variant it returns InvalidRating, whatever the message's action is.
C14_GetRating ==
    obs.op = "get_rating" =>
        LET p == Kind.payload
            r == obs.res
            isRating == PayloadIs(p, "rating_user")
            inRange == Unwrap(p).v >= MIN_RATING /\ Unwrap(p).v <= MAX_RATING
        IN  /\ r.ok <=> (isRating /\ inRange)
            /\ r.ok => r.val = Unwrap(p).v
            /\ (isRating /\ ~inRange) => (~r.ok /\ r.err = "InvalidRatingValue")
            /\ ~isRating => (~r.ok /\ r.err = "InvalidRating")

\* the rating 6 was asked for and came back as InvalidRatingValue
C14_Witness ==
    /\ obs.op = "get_rating"
    /\ Kind.payload = Some(PayloadOf("rating_user", 6))
    /\ obs.res.err = "InvalidRatingValue"

\* a rating in range is returned from a message whose action is not rate-user
C14_WitnessAnyAction ==
    /\ obs.op = "get_rating"
    /\ Kind.action = "new-order"
    /\ obs.res = Ok(MAX_RATING)

\* an absent payload gives InvalidRating
C14_WitnessAbsent ==
    /\ obs.op = "get_rating"
    /\ Kind.payload = None
    /\ obs.res.err = "InvalidRating"

\* C15: verify_signature(b, pub(k), sign(b, k)) is true for every string b
\* and keypair k, and verify_signature returns false, as a value, when the
\* public key is not the signer's, when the bytes are not the signed bytes,
\* or when the public key or the signature is malformed.
C15_SignatureSound ==
    obs.op = "verify_signature" =>
        LET made == obs.made
            honest == /\ obs.sig = made.sig
                      /\ obs.text = made.text
                      /\ obs.pubkey = Keys_public_key(made.keys)
        IN  /\ obs.res \in BOOLEAN
            /\ honest => obs.res = TRUE
            /\ obs.pubkey # Keys_public_key(made.keys) => obs.res = FALSE
            /\ obs.text # made.text => obs.res = FALSE
            /\ obs.pubkey = MalformedPublicKey => obs.res = FALSE
            /\ obs.sig = MalformedSignature => obs.res = FALSE

\* the signature made over the string verified under the signer's key
C15_Witness ==
    /\ obs.op = "verify_signature"
    /\ obs.sig = obs.made.sig
    /\ obs.text = obs.made.text
    /\ obs.pubkey = Keys_public_key(obs.made.keys)
    /\ obs.res = TRUE

\* a malformed public key was refused as a value
C15_WitnessMalformedKey ==
    /\ obs.op = "verify_signature"
    /\ obs.sig = obs.made.sig
    /\ obs.text = obs.made.text
    /\ obs.pubkey = MalformedPublicKey
    /\ obs.res = FALSE

\* other bytes than the signed ones were refused
C15_WitnessMutated ==
    /\ obs.op = "verify_signature"
    /\ obs.sig = obs.made.sig
    /\ obs.text # obs.made.text
    /\ obs.pubkey = Keys_public_key(obs.made.keys)
    /\ obs.res = FALSE

\* another key than the signer's was refused
C15_WitnessOtherKey ==
    /\ obs.op = "verify_signature"
    /\ obs.sig = obs.made.sig
    /\ obs.text = obs.made.text
    /\ obs.pubkey = Keys_public_key(TradeKeys)
    /\ obs.made.keys # TradeKeys
    /\ obs.res = FALSE

\* the JSON written for the message has an id member
HasIdKey(j) == \E i \in 1..Len(j.members) : j.members[i][1] = "id"

\* C16: for every message m, from_json(as_json(m)) succeeds and yields a
\* message with the same verify(), action, id, request_id, trade_index and
\* payload, whose as_json is the same string; the id key is left out of the
\* JSON exactly when id is absent, and a JSON without it decodes to an
\* absent id.
C16_WireRoundTrip ==
    IsSome(wire) =>
        LET m == Unwrap(wire).sent IN
        /\ json = Some(Message_as_json(m))
        /\ HasIdKey(Unwrap(json)) <=> IsSome(m.inner.id)
        /\ Unwrap(wire).decoded =>
            /\ IsSome(msg)
            /\ Message_verify(Unwrap(msg)) = Message_verify(m)
            /\ Kind.action = m.inner.action
            /\ Kind.id = m.inner.id
            /\ Kind.request_id = m.inner.request_id
            /\ Kind.trade_index = m.inner.trade_index
            /\ Kind.payload = m.inner.payload
            /\ Message_as_json(Unwrap(msg)) = Unwrap(json)
            /\ ~HasIdKey(Unwrap(json)) => Kind.id = None

\* a message was serialized and read back
C16_Decoded ==
    /\ IsSome(wire) /\ Unwrap(wire).decoded
    /\ IsSome(msg) /\ Kind.id = None /\ ~HasIdKey(Unwrap(json))

\* the string written for a peer with a non-finite rating was not read back
C16_NotDecoded ==
    /\ IsSome(wire) /\ Unwrap(wire).decoded
    /\ Unwrap(wire).sent.inner.payload = Some(PayloadOf("peer", NonFinite))
    /\ msg = None

---------------------------------------------------------------------------
(* Properties of the key caches, checked under CacheSpec                    *)

\* the cache the calls are made on
Tested == CacheOf(cop.codec)
Size(c) == Cardinality(DOMAIN c.map)

\* C17: in every state reached by gets, puts and decrypt calls on a key
\* cache, the cache holds at most 50 entries.
C17_CacheBound ==
    /\ Size(cache) <= 50 /\ Len(cache.order) <= 50
    /\ Size(ocache) <= 50 /\ Len(ocache.order) <= 50

\* a put into a cache of 50 entries left it at 50
C17_Witness ==
    /\ cop.op = "put" /\ Size(cop.before) = 50
    /\ cop.key \notin DOMAIN cop.before.map
    /\ Size(Tested) = 50

\* a decrypt call on a full cache put its derived key and left 50 entries
C17_WitnessDecrypt ==
    /\ cop.op = "decrypt" /\ Size(cop.before) = 50
    /\ cop.key \notin DOMAIN cop.before.map
    /\ cop.key \in DOMAIN Tested.map
    /\ Size(Tested) = 50

\* the keys put first to n-th, from the i-th on
KeysFrom(i, n) == {KeyOf(cop.codec, j) : j \in i..n}

\* C18: after 51 distinct keys were put into an empty cache with no get in
\* between, the cache holds exactly 50 entries, the first key is absent and
\* the 51st is present; after n > 50 such puts exactly the last 50 keys put
\* are present.
C18_LastFifty ==
    (cop.op = "put" /\ cop.extras = 0 /\ cop.gets = 0) =>
        LET n == cop.fresh IN
        /\ n > 50 => /\ Size(Tested) = 50
                     /\ DOMAIN Tested.map = KeysFrom(n - 49, n)
        /\ n = 51 => /\ KeyOf(cop.codec, 1) \notin DOMAIN Tested.map
                     /\ KeyOf(cop.codec, 51) \in DOMAIN Tested.map
        /\ n <= 50 => DOMAIN Tested.map = KeysFrom(1, n)

\* the 51st key was put: the first is gone
C18_Witness ==
    /\ cop.op = "put" /\ cop.extras = 0 /\ cop.gets = 0
    /\ cop.fresh = 51
    /\ Size(Tested) = 50
    /\ KeyOf(cop.codec, 1) \notin DOMAIN Tested.map

\* the 52nd key was put: the second is gone as well
C18_WitnessBeyond ==
    /\ cop.op = "put" /\ cop.extras = 0 /\ cop.gets = 0
    /\ cop.fresh = 52
    /\ KeyOf(cop.codec, 2) \notin DOMAIN Tested.map
    /\ KeyOf(cop.codec, 3) \in DOMAIN Tested.map

\* the keys the last call removed from the cache
Removed == DOMAIN cop.before.map \ DOMAIN Tested.map

\* the last call inserted a key the cache did not hold
Inserted ==
    /\ cop.op \in {"put", "decrypt"}
    /\ cop.key \notin DOMAIN cop.before.map
    /\ cop.key \in DOMAIN Tested.map

\* C19: when put inserts a new key into a full cache, the one entry removed
\* is the entry whose most recent access (put or successful get) is the
\* oldest of all; the key hit or written by the call before is never the
\* one the next insertion evicts; no entry is removed from a cache below
\* capacity.
C19_EvictsLeastRecent ==
    cop.op \in {"put", "get", "decrypt"} =>
        /\ (Inserted /\ Size(cop.before) >= CapacityOf(cop.codec)) =>
              /\ Cardinality(Removed) = 1
              /\ Removed = cop.oldest
        /\ ~(Inserted /\ Size(cop.before) >= CapacityOf(cop.codec)) =>
              Removed = {}
        /\ IsSome(cop.prev) => Unwrap(cop.prev) \notin Removed

\* the first key was accessed just before a new key went into the full
\* cache: the second key was evicted, the first stayed
C19_Witness ==
    /\ cop.op = "put" /\ Inserted
    /\ Size(cop.before) = CapacityOf(cop.codec)
    /\ cop.prev = Some(KeyOf(cop.codec, 1))
    /\ Removed = {KeyOf(cop.codec, 2)}
    /\ KeyOf(cop.codec, 1) \in DOMAIN Tested.map

\* a new key went into a cache below capacity and nothing was removed
C19_WitnessBelow ==
    /\ cop.op = "put" /\ Inserted
    /\ Size(cop.before) = CapacityOf(cop.codec) - 1
    /\ Removed = {}

\* the elements of a queue
Queued(c) == {c.order[i] : i \in 1..Len(c.order)}

\* C20: after put(k, v), a get(k) that no eviction of k came before returns
\* v; get never changes the stored keys, the stored values or the size of
\* the cache (it only reorders the access queue); get of an absent key
\* returns absent and leaves the cache entirely unchanged.
C20_GetCorrect ==
    cop.op = "get" =>
        /\ cop.key \in DOMAIN cop.live => cop.ret = Some(cop.live[cop.key])
        /\ Tested.map = cop.before.map
        /\ Queued(Tested) = Queued(cop.before)
        /\ Len(Tested.order) = Len(cop.before.order)
        /\ cop.key \notin DOMAIN cop.before.map =>
              /\ cop.ret = None
              /\ Tested = cop.before

\* a key put earlier and still held was read back, and only the queue moved
C20_Witness ==
    /\ cop.op = "get"
    /\ cop.key = KeyOf(cop.codec, 1)
    /\ cop.key \in DOMAIN cop.live
    /\ cop.ret = Some(ValueOf(1))
    /\ Tested.order # cop.before.order
    /\ Size(Tested) = CapacityOf(cop.codec)

\* a key that was evicted was asked for: absent, and the cache as before
C20_WitnessAbsent ==
    /\ cop.op = "get"
    /\ cop.key = KeyOf(cop.codec, 1)
    /\ cop.fresh > CapacityOf(cop.codec)
    /\ cop.ret = None
    /\ Tested = cop.before

\* C21: when the process-wide key cache is torn down or dropped, graceful
\* process shutdown included, every stored derived key is overwritten with
\* zero bytes and the map and the access queue are emptied: no key bytes
\* cached before remain.
C21_WipedOnTeardown ==
    cop.op \in {"drop", "exit"} =>
        /\ \A bytes \in cop.released : bytes = Zeroed
        /\ Tested.map = <<>>
        /\ Tested.order = <<>>

\* C22: when put evicts the least recently used entry, the 32 bytes of the
\* evicted derived key are overwritten with zeros before the entry's memory
\* is released.
C22_WipedOnEviction ==
    (cop.op \in {"put", "decrypt"} /\ Removed # {}) =>
        /\ cop.released # {}
        /\ \A bytes \in cop.released : bytes = Zeroed

\* a crypto.rs SimpleCache of 50 keys was dropped and its keys were zeroed
C21_DropWiped ==
    /\ cop.op = "drop" /\ cop.codec = "crypto"
    /\ Size(cop.before) = 50
    /\ cop.released = {Zeroed}
    /\ Tested = SimpleCache_new

\* the process ended with 50 keys in KEY_CACHE, none of them zeroed
C21_ExitNotWiped ==
    /\ cop.op = "exit" /\ cop.codec = "crypto"
    /\ Size(cop.before) = 50
    /\ Zeroed \notin cop.released
    /\ Size(Tested) = 50

\* put evicted a key and its bytes were left as they were
C22_EvictedNotWiped ==
    /\ cop.op = "put" /\ Removed # {}
    /\ cop.released = {cop.before.map[k] : k \in Removed}
    /\ Zeroed \notin cop.released

---------------------------------------------------------------------------
(* Further properties of the message envelope, checked under MsgSpec        *)

\* C23: in every message envelope that is constructed, decoded or accepted
\* by verify(), trade_index, when present, is a non-negative integer.
C23_TradeIndexNonNegative ==
    (IsSome(msg) /\ IsSome(Kind.trade_index)) => Unwrap(Kind.trade_index) >= 0

\* an envelope with trade_index -1 was decoded from JSON and accepted by
\* verify()
C23_NegativeAccepted ==
    /\ IsSome(msg) /\ Kind.trade_index = Some(-1)
    /\ IsSome(wire) /\ Unwrap(wire).decoded
    /\ verdict = "true"

---------------------------------------------------------------------------
(* Further properties of the key caches, checked under CacheSpec            *)

\* C24: in every state reached by gets and puts, the access queue holds
\* exactly the keys of the map, each exactly once, ordered from the least
\* to the most recently accessed.
C24_QueueIsMap ==
    Alive =>
        LET q == Tested.order IN
        /\ Queued(Tested) = DOMAIN Tested.map
        /\ Len(q) = Size(Tested)
        /\ DOMAIN cop.stamp = DOMAIN Tested.map
        /\ \A i, j \in 1..Len(q) : i < j => cop.stamp[q[i]] < cop.stamp[q[j]]

\* the first key was read from the full cache and went to the end of the
\* queue, behind keys put after it
C24_Witness ==
    /\ cop.op = "get" /\ cop.ret # None
    /\ Size(Tested) = CapacityOf(cop.codec)
    /\ Tested.order[Len(Tested.order)] = KeyOf(cop.codec, 1)
    /\ Tested.order[1] = KeyOf(cop.codec, 2)

\* C25: put(k, v) on a key the cache holds overwrites its value with v and
\* moves k to the most recently used end, evicts no entry and leaves the
\* size as it was, also when the cache is at capacity.
C25_PutPresent ==
    (cop.op = "put" /\ cop.key \in DOMAIN cop.before.map) =>
        /\ Tested.map = [cop.before.map EXCEPT ![cop.key] = cop.value]
        /\ Tested.order[Len(Tested.order)] = cop.key
        /\ Tested.order = Append(Retain(cop.before.order, cop.key), cop.key)
        /\ Removed = {}
        /\ Size(Tested) = Size(cop.before)

\* at capacity, the oldest key was put again with another value
C25_Witness ==
    /\ cop.op = "put" /\ cop.key \in DOMAIN cop.before.map
    /\ Size(cop.before) = CapacityOf(cop.codec)
    /\ cop.key = cop.before.order[1]
    /\ cop.before.map[cop.key] # cop.value
    /\ Tested.map[cop.key] = cop.value

\* the key a decrypt call under the i-th salt derives
DerivedOf(codec, i) ==
    IF codec = "crypto" THEN derive_key(FillPass, FillSalt(i)).val
    ELSE Unwrap(order_hash_password(FillPass, FillSalt(i)))

\* the salt the last call's key belongs to
SaltIndex == CHOOSE i \in 1..(MaxFresh + 1) : KeyOf(cop.codec, i) = cop.key

\* C26: a decrypt call whose cache key is in the cache runs no KDF; a call
\* whose cache key is absent runs the KDF exactly once and inserts the
\* result under that cache key.  So after a decrypt for (p, salt), a later
\* decrypt for the same (p, salt) runs no KDF while the entry has not been
\* evicted.
C26_KdfOnMissOnly ==
    cop.op = "decrypt" =>
        /\ cop.key \in DOMAIN cop.before.map =>
              /\ cop.lookup = "hit" /\ cop.kdf = 0
              /\ Tested.map = cop.before.map
        /\ cop.key \notin DOMAIN cop.before.map =>
              /\ cop.lookup = "miss" /\ cop.kdf = 1
              /\ cop.key \in DOMAIN Tested.map
              /\ Tested.map[cop.key] = DerivedOf(cop.codec, SaltIndex)
        /\ cop.again => cop.kdf = 0

\* the same field was decrypted twice: the second call ran no KDF
C26_Witness ==
    /\ cop.op = "decrypt" /\ cop.again
    /\ cop.lookup = "hit" /\ cop.kdf = 0
    /\ Tested.map[cop.key] = DerivedOf(cop.codec, SaltIndex)

\* a decrypt call missed and ran the KDF once
C26_WitnessMiss ==
    /\ cop.op = "decrypt" /\ ~cop.again
    /\ cop.lookup = "miss" /\ cop.kdf = 1
    /\ cop.key \notin DOMAIN cop.before.map

\* the last call failed authentication
AuthFailed == ~cop.res.ok /\ cop.res.err = "DecryptionError" /\ cop.res.why = "aead::Error"

\* C28: on a miss, decrypt inserts the derived key before it attempts the
\* AEAD decryption: after a decrypt call that fails authentication on a
\* miss, the cache holds the entry for that (passphrase, salt), and if the
\* cache was full its least recently used entry has been evicted.
C28_InsertedBeforeOpen ==
    (cop.op = "decrypt" /\ cop.lookup = "miss" /\ AuthFailed) =>
        /\ cop.key \in DOMAIN Tested.map
        /\ Tested.map[cop.key] = DerivedOf(cop.codec, SaltIndex)
        /\ Size(cop.before) >= CapacityOf(cop.codec) =>
              /\ Removed = cop.oldest
              /\ Cardinality(Removed) = 1
        /\ Size(cop.before) < CapacityOf(cop.codec) => Removed = {}

\* order.rs decrypt_data failed authentication on a miss with its cache
\* full: the new key is in, the oldest is out
C28_Witness ==
    /\ cop.op = "decrypt" /\ cop.lookup = "miss" /\ AuthFailed
    /\ cop.codec = "order"
    /\ Size(cop.before) = CapacityOf(cop.codec)
    /\ cop.key \in DOMAIN Tested.map
    /\ Removed = {cop.before.order[1]}

\* the same for CryptoUtils::decrypt_data
C28_WitnessCrypto ==
    /\ cop.op = "decrypt" /\ cop.lookup = "miss" /\ AuthFailed
    /\ cop.codec = "crypto"
    /\ Size(cop.before) = CapacityOf(cop.codec)
    /\ cop.key \in DOMAIN Tested.map
    /\ Removed = {cop.before.order[1]}

---------------------------------------------------------------------------
(* Properties of concurrent decrypt calls, checked under LockSpec           *)

\* C27: every get and put of the cache made by concurrent decrypt calls
\* runs under the cache's one exclusive lock, held from the lookup through
\* key derivation and insertion; no two decrypt calls are inside this
\* section at the same time, and no interleaving breaks the size bound or
\* the agreement of queue and map.
C27_MutualExclusion ==
    /\ \A t \in Threads : InSection(t) => t \in lock
    /\ Cardinality(lock) <= 1
    /\ \A t, u \in Threads : (InSection(t) /\ InSection(u)) => t = u
    /\ Size(cache) <= MAX_CACHE_SIZE
    /\ Queued(cache) = DOMAIN cache.map
    /\ Len(cache.order) = Size(cache)

\* one thread derives a key under the lock of the full cache while the
\* other waits for the lock
C27_Witness ==
    /\ \E t, u \in Threads :
        /\ thr[t].pc = "derive" /\ lock = {t}
        /\ thr[u].pc = "waiting"
        /\ thr[u].salt # thr[t].salt
    /\ Size(cache) = MAX_CACHE_SIZE

\* both threads have inserted their keys into the full cache, one after
\* the other
C27_WitnessBothIn ==
    /\ \A t \in Threads : thr[t].pc = "idle" /\ thr[t].calls = 1
    /\ FillKey(MAX_CACHE_SIZE + 1) \in DOMAIN cache.map
    /\ FillKey(MAX_CACHE_SIZE + 2) \in DOMAIN cache.map
    /\ Size(cache) = MAX_CACHE_SIZE
    /\ lock = {}

---------------------------------------------------------------------------
(* Properties of Order, checked under OrderSpec                             *)

\* C29: for an order starting with failed_payment = false and a fixed
\* r >= 0, the first count_failed_payment(r) sets failed_payment = true and
\* payment_attempts = 0, each later call adds exactly one to
\* payment_attempts while it is below r and leaves it as it is otherwise;
\* payment_attempts never exceeds r and failed_payment never returns to
\* false.
C29_FailedPaymentCounter ==
    /\ ocall.op = "count_failed_payment" =>
        LET b == ocall.before IN
        /\ ~b.failed_payment <=> ocall.counted = 1
        /\ ~b.failed_payment =>
              order.failed_payment /\ order.payment_attempts = 0
        /\ (b.failed_payment /\ b.payment_attempts < ocall.r) =>
              order.payment_attempts = b.payment_attempts + 1
        /\ (b.failed_payment /\ b.payment_attempts >= ocall.r) =>
              order.payment_attempts = b.payment_attempts
    /\ ocall.counted >= 1 =>
        /\ order.failed_payment
        /\ order.payment_attempts <= ocall.r

\* the counter has reached r = 2 and a further call left it there
C29_Witness ==
    /\ ocall.op = "count_failed_payment" /\ ocall.r = 2
    /\ ocall.before.failed_payment /\ ocall.before.payment_attempts = 2
    /\ order.payment_attempts = 2
    /\ ocall.counted = 4

\* the first call reset a counter that stood at 3
C29_WitnessReset ==
    /\ ocall.op = "count_failed_payment" /\ ocall.counted = 1
    /\ ocall.before.payment_attempts = 3
    /\ order.payment_attempts = 0 /\ order.failed_payment

\* the dispute flag of the side that calls
Flag(o, is_buyer_dispute) ==
    IF is_buyer_dispute THEN o.buyer_dispute ELSE o.seller_dispute

\* C30: setup_dispute(is_buyer_dispute) returns Ok exactly when the call
\* takes the initiating side's dispute flag from false to true; a call
\* changes at most one flag and clears none, so a second call by the same
\* side returns DisputeCreationError; the status is set to dispute on every
\* call, also on one that returns the error.
C30_SetupDispute ==
    ocall.op = "setup_dispute" =>
        LET b == ocall.before
            mine == ocall.arg
        IN
        /\ ocall.res.ok <=> (~Flag(b, mine) /\ Flag(order, mine))
        /\ ~ocall.res.ok => ocall.res.err = "DisputeCreationError"
        /\ Flag(b, mine) => ~ocall.res.ok
        /\ Flag(order, ~mine) = Flag(b, ~mine)
        /\ Flag(b, mine) => Flag(order, mine)
        /\ order.status = "dispute"
        /\ order.failed_payment = b.failed_payment
        /\ order.payment_attempts = b.payment_attempts

\* the buyer opened a dispute on an active order whose buyer flag stood
\* already: the error, and status dispute
C30_Witness ==
    /\ ocall.op = "setup_dispute" /\ ocall.arg
    /\ ocall.before.buyer_dispute /\ ~ocall.before.seller_dispute
    /\ ocall.before.status = "active"
    /\ ocall.res = Err("DisputeCreationError", "")
    /\ order.status = "dispute"

\* the seller opened a dispute after the buyer had: Ok, both flags set
C30_WitnessBoth ==
    /\ ocall.op = "setup_dispute" /\ ~ocall.arg
    /\ ocall.before.buyer_dispute /\ ~ocall.before.seller_dispute
    /\ ocall.res.ok
    /\ order.buyer_dispute /\ order.seller_dispute

===========================================================================
